---- MODULE Spec2Model ----
(***************************************************************************)
(* State-machine model of the Explorer of rs-drive-example: the masternode *)
(* registry, the strategy store and the strategy-driven block executor     *)
(* (src/src/blockchain/{mod,masternode,strategy}.rs).                      *)
(*                                                                         *)
(* Strings are sequences of one-character strings, so that starts_with,    *)
(* split_whitespace, split("..") and parse::<T>() are computed, not        *)
(* assumed.  Option<T> is a sequence of length 0 (None) or 1 (Some).       *)
(***************************************************************************)
EXTENDS Integers, Sequences, FiniteSets, TLC

(***************************************************************************)
(* Bounds of the model.                                                    *)
(***************************************************************************)
\* the highest block height a run may reach
MaxHeight == 3
\* the most masternodes one add_masternodes command may add
MaxAdd == 2
\* the number of distinct 32-byte identifiers rand::random can return
NumIds == 2
\* the width, in bits, the u64 fee counters are scaled down to
FeeBits == 3
\* the most operations a strategy may hold
MaxOps == 2

\* the bounds of the specification that runs both screens together: the
\* operations of a strategy, the strategies stored, the masternodes
\* registered and the blocks of a run
ExplorerOps == 1
ExplorerStored == 2
ExplorerRegistry == 1
ExplorerBlocks == 1

\* the largest batch given to populate_with_documents / populate_with_identities
MaxBatch == 3

(***************************************************************************)
(* Option<T>                                                               *)
(***************************************************************************)
None == <<>>
Some(x) == <<x>>
IsSome(o) == o # <<>>
Unwrap(o) == o[1]

(***************************************************************************)
(* Strings and the std parsing routines the prompts call.                  *)
(***************************************************************************)
Digits == <<"0", "1", "2", "3", "4", "5", "6", "7", "8", "9">>

IsDigit(c) == \E i \in 1..10 : Digits[i] = c

DigitValue(c) == (CHOOSE i \in 1..10 : Digits[i] = c) - 1

IsWhitespace(c) == c \in {" ", "\t"}

\* str::starts_with
StartsWith(s, prefix) ==
    /\ Len(s) >= Len(prefix)
    /\ SubSeq(s, 1, Len(prefix)) = prefix

RECURSIVE SplitFrom(_, _, _)
SplitFrom(s, cur, acc) ==
    IF s = <<>>
    THEN IF cur = <<>> THEN acc ELSE Append(acc, cur)
    ELSE IF IsWhitespace(Head(s))
         THEN SplitFrom(Tail(s), <<>>, IF cur = <<>> THEN acc ELSE Append(acc, cur))
         ELSE SplitFrom(Tail(s), Append(cur, Head(s)), acc)

\* str::split_whitespace().collect()
SplitWhitespace(s) == SplitFrom(s, <<>>, <<>>)

RECURSIVE DigitsValue(_, _)
DigitsValue(s, acc) ==
    IF s = <<>> THEN acc ELSE DigitsValue(Tail(s), 10 * acc + DigitValue(Head(s)))

\* <unsigned>::from_str: an optional '+', then one or more decimal digits,
\* and the value must not exceed the type's maximum.
ParseUnsigned(s, max) ==
    LET d == IF s # <<>> /\ Head(s) = "+" THEN Tail(s) ELSE s
    IN  IF d = <<>> \/ (\E i \in 1..Len(d) : ~IsDigit(d[i]))
        THEN [ok |-> FALSE, value |-> 0]
        ELSE IF DigitsValue(d, 0) > max
             THEN [ok |-> FALSE, value |-> 0]
             ELSE [ok |-> TRUE, value |-> DigitsValue(d, 0)]

\* usize::from_str; usize::MAX is beyond every input of the model, which have
\* at most five digits
ParseUsize(s) == ParseUnsigned(s, 99999)

\* u16::from_str
ParseU16(s) == ParseUnsigned(s, 65535)

RECURSIVE SplitDotsFrom(_, _, _)
SplitDotsFrom(s, cur, acc) ==
    IF s = <<>> THEN Append(acc, cur)
    ELSE IF Len(s) >= 2 /\ s[1] = "." /\ s[2] = "."
         THEN SplitDotsFrom(SubSeq(s, 3, Len(s)), <<>>, Append(acc, cur))
         ELSE SplitDotsFrom(Tail(s), Append(cur, Head(s)), acc)

\* str::split("..").collect(): the pieces between the matches, empty ones included
SplitDots(s) == SplitDotsFrom(s, <<>>, <<>>)

\* the position of the first "." of s, or 0
RECURSIVE FirstDot(_, _)
FirstDot(s, i) == IF i > Len(s) THEN 0 ELSE IF s[i] = "." THEN i ELSE FirstDot(s, i + 1)

AllDigits(s) == \A i \in 1..Len(s) : IsDigit(s[i])

\* the value, in thousandths, of the fraction digits f (at most three)
FractionThousandths(f) ==
    DigitsValue(f, 0) * (IF Len(f) = 0 THEN 0 ELSE IF Len(f) = 1 THEN 100
                         ELSE IF Len(f) = 2 THEN 10 ELSE 1)

\* f64::from_str on decimal notation without an exponent: an optional sign,
\* digits, an optional point and digits, with at least one digit; the value
\* is held in thousandths.  (Exponents, "inf" and "NaN" are outside the inputs
\* of the model, which have at most three fraction digits.)
ParseF64(s) ==
    LET signed == s # <<>> /\ Head(s) \in {"+", "-"}
        d == IF signed THEN Tail(s) ELSE s
        dot == FirstDot(d, 1)
        int == IF dot = 0 THEN d ELSE SubSeq(d, 1, dot - 1)
        frac == IF dot = 0 THEN <<>> ELSE SubSeq(d, dot + 1, Len(d))
        magnitude == 1000 * DigitsValue(int, 0) + FractionThousandths(frac)
    IN  IF /\ AllDigits(int)
           /\ AllDigits(frac)
           /\ Len(int) + Len(frac) > 0
           /\ Len(frac) <= 3
        THEN [ok |-> TRUE,
              value |-> IF signed /\ Head(s) = "-" THEN 0 - magnitude ELSE magnitude]
        ELSE [ok |-> FALSE, value |-> 0]

(***************************************************************************)
(* The input lines the operator types (rustyline's readline results).      *)
(***************************************************************************)
S_e == <<"e">>
S_a == <<"a">>
S_execute_blocks == <<"e","x","e","c","u","t","e","_","b","l","o","c","k","s">>
S_add_masternodes == <<"a","d","d","_","m","a","s","t","e","r","n","o","d","e","s">>
S_strategy == <<"s","t","r","a","t","e","g","y">>
S_s == <<"s">>
S_exit == <<"e","x","i","t">>
S_view == <<"v","i","e","w">>
S_v == <<"v">>
Sp == <<" ">>

\* the count arguments tried with execute_blocks and add_masternodes
CountArgs ==
    { <<"0">>, <<"1">>, <<"2">>, <<"+","1">>, <<"-","1">>, <<"x">>,
      <<"1","0","0","0","0">>, <<"1","0","0","0","1">>, <<"1",".","5">> }

BlockchainLines ==
    { cmd \o Sp \o arg : cmd \in {S_e, S_execute_blocks, S_a, S_add_masternodes},
                          arg \in CountArgs }
    \cup { S_e \o Sp, S_a \o Sp \o <<" ">>,
           S_e \o Sp \o <<"1">> \o Sp \o <<"2">>,
           S_a \o Sp \o <<"1">> \o Sp \o <<"2">>,
           S_e, S_exit, S_strategy, S_s, S_v, S_view \o Sp \o <<"1">>, <<"h","i">> }

S_n == <<"n">>
S_new_strategy == <<"n","e","w","_","s","t","r","a","t","e","g","y">>
S_l == <<"l">>
S_load_strategy == <<"l","o","a","d","_","s","t","r","a","t","e","g","y">>
S_dup == <<"d","u","p">>
S_dup_strategy == <<"d","u","p","_","s","t","r","a","t","e","g","y">>
S_save_strategy == <<"s","a","v","e","_","s","t","r","a","t","e","g","y">>
S_va == <<"v","a">>
S_view_all == <<"v","i","e","w","_","a","l","l">>
S_c == <<"c">>
S_contracts == <<"c","o","n","t","r","a","c","t","s">>
S_ac == <<"a","c">>
S_add_contract == <<"a","d","d","_","c","o","n","t","r","a","c","t">>
S_add_op == <<"a","d","d","_","o","p">>
S_s1 == <<"s","1">>
S_s2 == <<"s","2">>
S_s3 == <<"s","3">>
S_c1 == <<"c","1">>
S_c2 == <<"c","2">>
S_person == <<"p","e","r","s","o","n">>
S_pet == <<"p","e","t">>
S_path == <<"f",".","j","s","o","n">>

\* the words of a line, joined by single spaces
RECURSIVE Line(_)
Line(words) ==
    IF Len(words) = 1 THEN words[1] ELSE words[1] \o Sp \o Line(Tail(words))

\* the add_op lines that add an operation, when a strategy is loaded
AddOpLines ==
    { Line(<<S_a, S_c1, S_person, <<"2",".",".","3">> >>),
      Line(<<S_a, S_c1, S_person, <<"+","2",".",".","3">> >>),
      Line(<<S_add_op, S_c1, S_person, <<"3",".",".","1">>, <<"1",".","5">> >>) }

\* add_op lines with something wrong in them
BadAddOpLines ==
    { Line(<<S_a, S_c2, S_person, <<"2",".",".","3">> >>),
      Line(<<S_a, S_c1, S_pet, <<"2",".",".","3">> >>),
      Line(<<S_a, S_c1, S_person, <<"2","3">> >>),
      Line(<<S_a, S_c1, S_person, <<"1",".",".","2",".",".","3">> >>),
      Line(<<S_a, S_c1, S_person, <<"x",".",".","3">> >>),
      Line(<<S_a, S_c1, S_person, <<"2",".",".",".","3">> >>),
      Line(<<S_a, S_c1, S_person, <<"1",".",".","7","0","0","0","0">> >>),
      Line(<<S_a, S_c1, S_person, <<"2",".",".","3">>, <<"z">> >>),
      Line(<<S_a, S_c1, S_person, <<"2",".",".","3">>, <<"1">>, <<"9">> >>),
      Line(<<S_a, S_c1, S_person>>) }

StrategyLines ==
    AddOpLines \cup BadAddOpLines \cup
    { Line(<<S_n, S_s1>>), Line(<<S_new_strategy, S_s2>>), Line(<<S_n, S_s1, S_s2>>),
      S_n \o Sp,
      Line(<<S_l, S_s1>>), Line(<<S_load_strategy, S_s2>>), Line(<<S_l, S_s3>>),
      Line(<<S_l, S_s1, S_s2>>), S_l \o Sp,
      Line(<<S_dup, S_s2>>), Line(<<S_dup_strategy, S_s1>>), Line(<<S_dup, S_s1, S_s2>>),
      S_dup \o Sp,
      S_s, S_save_strategy, S_save_strategy \o Sp,
      Line(<<S_ac, S_c1, S_path>>), Line(<<S_add_contract, S_c1, S_path>>),
      Line(<<S_ac, S_c1>>), Line(<<S_ac, S_c1, S_path, S_path>>),
      S_va, S_view_all, S_v, S_view, S_c, S_contracts, S_exit, <<"h","i">> }

(***************************************************************************)
(* The state of the Explorer and of a run of execute_blocks.               *)
(***************************************************************************)
VARIABLES
    screen,                      \* the ExplorerScreen the loop is on
    masternodes,                 \* IndexMap<[u8; 32], Masternode>: keys in insertion order
    last_block,                  \* Option<Block>
    current_epoch,               \* Option<Epoch>, an Epoch being its index
    available_strategies,        \* map alias -> Strategy
    current_execution_strategy,  \* Option<(String, Strategy)>
    available_contracts,         \* map alias -> Contract
    contract_paths,              \* map alias -> path
    strategies_file,             \* the strategy store as last written by save_available_strategies
    output,                      \* what the last command printed
    command,                     \* history: the handler the last input line reached
    pc,                          \* where the program is
    height,                      \* execute_blocks: the loop variable
    range_end,                   \* execute_blocks: the exclusive end of the range
    block,                       \* execute_block: its argument
    masternode,                  \* execute_block: the proposer picked
    previous_block_time_ms,      \* execute_block: Option<u64>
    transaction,                 \* the grove transaction of the block
    epoch_index,                 \* execute_current_strategy: its argument
    fees_aggregate,              \* execute_current_strategy: the FeesAggregate
    op_idx,                      \* execute_current_strategy: position in strategy.operations
    documents,                   \* execute_current_strategy: documents left to insert
    response,                    \* execute_block: the BlockEndResponse
    run_request,                 \* history: last_block when execute_blocks was entered, and count
    block_entry,                 \* history: (last_block, current_epoch) when execute_block was entered
    op_log,                      \* history: per operation of this block, whether it fired and what was inserted
    populate_fn,                 \* populate_with_documents or populate_with_identities
    batch,                       \* the number of documents or identities given to it
    populate_pc,                 \* where the call is
    db_transaction,              \* populate: its transaction
    populate_storage_fee,        \* populate: `storage_fee`, the i64 accumulator
    populate_processing_fee,     \* populate: `processing_fee`, the u64 accumulator
    inserted,                    \* history: the results of the insertions that succeeded
    commit_calls,                \* history: the calls of commit_transaction
    populate_result              \* what the call returned, once it has

strategyStoreVars == <<available_strategies, current_execution_strategy, strategies_file>>
contractVars == <<available_contracts, contract_paths>>
cursorVars == <<last_block, current_epoch>>
explorerVars == <<masternodes, cursorVars, strategyStoreVars, contractVars>>
loopVars == <<height, range_end>>
blockVars == <<block, masternode, previous_block_time_ms, transaction, response>>
strategyVars == <<epoch_index, fees_aggregate, op_idx, documents>>
historyVars == <<command, run_request, block_entry, op_log>>
populateVars == <<populate_fn, batch, populate_pc, db_transaction, populate_storage_fee,
                  populate_processing_fee, inserted, commit_calls, populate_result>>
programVars == <<screen, explorerVars, output, pc, loopVars, blockVars, strategyVars,
                 historyVars>>
vars == <<programVars, populateVars>>

(***************************************************************************)
(* Values.                                                                 *)
(***************************************************************************)
Block(h, t) == [height |-> h, time_ms |-> t]

\* a line of output; n is the number printed in it, 0 when there is none
Msg(m, n) == [msg |-> m, n |-> n]

IsError(m) == m.msg \in {"ERROR_max_params", "ERROR_min_params", "ERROR_limit_range",
                         "ERROR_limit_not_integer", "ERROR_no_current_strategy",
                         "ERROR_no_current_strategy_to_duplicate",
                         "ERROR_no_current_strategy_to_save", "ERROR_no_contract",
                         "ERROR_no_document_type", "ERROR_range_format",
                         "ERROR_lower_bound_not_integer", "ERROR_upper_bound_not_integer",
                         "ERROR_chance_parse", "ERROR_unable_to_load_contract"}

\* an empty BTreeMap
EmptyMap == [k \in {} |-> 0]

\* the input line read and the handler it reached, with the alias or the count
\* passed to it and the masternodes generated for it
Command(name, input, alias, count) ==
    [name |-> name, input |-> input, alias |-> alias, count |-> count, new |-> <<>>]

NoBlock == Block(0, 0)
NoResponse == [is_epoch_change |-> FALSE, current_epoch_index |-> 0]
ZeroFees == [processing_fees |-> 0, storage_fees |-> 0]

\* 2^FeeBits: the u64 counters of FeesAggregate wrap at this value in the model
RECURSIVE Pow2(_)
Pow2(n) == IF n = 0 THEN 1 ELSE 2 * Pow2(n - 1)

U64Modulus == Pow2(FeeBits)

\* `x as u64` for an i64 x: two's complement reinterpretation
AsU64(x) == (x + U64Modulus) % U64Modulus

\* the 32-byte identifiers rand::random::<[u8; 32]>() can return
MasternodeIds == 1..NumIds

\* what add_document_for_contract can return on success: (storage_fee: i64, processing_fee: u64)
FeeResults == { <<1, 1>>, <<-1, 2>>, <<3, 5>> }

\* the epoch indexes block_end can report
EpochIndexes == {0, 1}

(***************************************************************************)
(* The initial state: a fresh Explorer on the blockchain screen.           *)
(***************************************************************************)
IdleLocals ==
    /\ height = 0
    /\ range_end = 0
    /\ block = NoBlock
    /\ masternode = 0
    /\ previous_block_time_ms = None
    /\ transaction = "none"
    /\ epoch_index = 0
    /\ fees_aggregate = ZeroFees
    /\ op_idx = 0
    /\ documents = 0
    /\ response = NoResponse
    /\ block_entry = None
    /\ op_log = <<>>

\* no call of populate_with_documents or populate_with_identities is under way
PopulateIdle ==
    /\ populate_fn = "none"
    /\ batch = 0
    /\ populate_pc = "idle"
    /\ db_transaction = "none"
    /\ populate_storage_fee = 0
    /\ populate_processing_fee = 0
    /\ inserted = <<>>
    /\ commit_calls = 0
    /\ populate_result = None

Init ==
    /\ screen = "BlockchainScreen"
    /\ masternodes = <<>>
    /\ last_block = None
    /\ current_epoch = None
    /\ available_strategies = EmptyMap
    /\ current_execution_strategy = None
    /\ available_contracts = EmptyMap
    /\ contract_paths = EmptyMap
    /\ strategies_file = EmptyMap
    /\ output = <<>>
    /\ command = Command("none", <<>>, <<>>, 0)
    /\ pc = "readline"
    /\ run_request = None
    /\ IdleLocals
    /\ PopulateIdle

(***************************************************************************)
(* Masternode registry (blockchain/mod.rs, blockchain/masternode.rs).      *)
(***************************************************************************)
ContainsKey(map, k) == \E i \in 1..Len(map) : map[i] = k

\* an insert that stores a second entry under a key already present
IndexMapInsert_appending(map, k) == Append(map, k)

\* IndexMap::insert: a new key goes last, a present key keeps its position
IndexMapInsert(map, k) == IF ContainsKey(map, k) THEN map ELSE Append(map, k)

RECURSIVE InsertAll(_, _)
InsertAll(map, ms) ==
    IF ms = <<>> THEN map ELSE InsertAll(IndexMapInsert(map, Head(ms)), Tail(ms))

\* Masternode::new_random_many(count): every sequence of count identifiers
NewRandomMany(count) == [1..count -> MasternodeIds]

\* add_masternodes losing the first of the masternodes it was given
add_masternodes_skipping_first(new) == InsertAll(masternodes, Tail(new))

\* add_masternodes building the registry anew from the masternodes given
add_masternodes_replacing(new) == InsertAll(<<>>, new)

\* Explorer::add_masternodes, given the masternodes new_random_many returned
add_masternodes(new) == InsertAll(masternodes, new)

\* blockchain_rl without the short form of `strategy`
BlockchainCommand_without_short_form(input) ==
    IF StartsWith(input, S_view \o Sp) \/ input = S_v THEN "view"
    ELSE IF StartsWith(input, S_add_masternodes \o Sp) \/ StartsWith(input, S_a \o Sp)
         THEN "add_masternodes"
    ELSE IF StartsWith(input, S_execute_blocks \o Sp) \/ StartsWith(input, S_e \o Sp)
         THEN "execute_blocks"
    ELSE IF input = S_strategy THEN "strategy"
    ELSE IF input = S_exit THEN "exit"
    ELSE "other"

\* the branch of blockchain_rl an input line takes
BlockchainCommand(input) ==
    IF StartsWith(input, S_view \o Sp) \/ input = S_v THEN "view"
    ELSE IF StartsWith(input, S_add_masternodes \o Sp) \/ StartsWith(input, S_a \o Sp)
         THEN "add_masternodes"
    ELSE IF StartsWith(input, S_execute_blocks \o Sp) \/ StartsWith(input, S_e \o Sp)
         THEN "execute_blocks"
    ELSE IF input = S_strategy \/ input = S_s THEN "strategy"
    ELSE IF input = S_exit THEN "exit"
    ELSE "other"

\* the validation with `value >= 0` for `value > 0`
CountArgument_accepting_zero(input) ==
    LET args == SplitWhitespace(input)
    IN  IF Len(args) > 2 THEN [err |-> "ERROR_max_params", value |-> 0]
        ELSE IF Len(args) < 2 THEN [err |-> "ERROR_min_params", value |-> 0]
        ELSE LET r == ParseUsize(args[2])
             IN  IF r.ok
                 THEN IF r.value >= 0 /\ r.value <= 10000
                      THEN [err |-> "ok", value |-> r.value]
                      ELSE [err |-> "ERROR_limit_range", value |-> 0]
                 ELSE [err |-> "ERROR_limit_not_integer", value |-> 0]

\* the validation prompt_execute_blocks and prompt_add_masternodes share:
\* the message of the error, or "ok" with the count
CountArgument(input) ==
    LET args == SplitWhitespace(input)
    IN  IF Len(args) > 2 THEN [err |-> "ERROR_max_params", value |-> 0]
        ELSE IF Len(args) < 2 THEN [err |-> "ERROR_min_params", value |-> 0]
        ELSE LET r == ParseUsize(args[2])
             IN  IF r.ok
                 THEN IF r.value > 0 /\ r.value <= 10000
                      THEN [err |-> "ok", value |-> r.value]
                      ELSE [err |-> "ERROR_limit_range", value |-> 0]
                 ELSE [err |-> "ERROR_limit_not_integer", value |-> 0]

AtPrompt(scr) == pc = "readline" /\ screen = scr

\* what the lines that reach prompt_add_masternodes come to
AddMasternodesArguments ==
    { [input |-> input, arg |-> CountArgument(input)] :
        input \in { i \in BlockchainLines : BlockchainCommand(i) = "add_masternodes" } }

\* what the lines that reach prompt_execute_blocks come to
ExecuteBlocksArguments ==
    { [input |-> input, arg |-> CountArgument(input)] :
        input \in { i \in BlockchainLines : BlockchainCommand(i) = "execute_blocks" } }

\* the other lines of the blockchain screen, with the branch each takes
BlockchainOtherCommands ==
    { c \in { [input |-> input, branch |-> BlockchainCommand(input)] :
                 input \in BlockchainLines } :
        c.branch \notin {"add_masternodes", "execute_blocks"} }

\* blockchain_rl -> prompt_add_masternodes
PromptAddMasternodes ==
    /\ AtPrompt("BlockchainScreen")
    /\ \E line \in AddMasternodesArguments :
           LET a == line.arg
           IN  IF a.err = "ok"
               THEN /\ a.value <= MaxAdd
                    /\ \E new \in NewRandomMany(a.value) :
                        /\ masternodes' = add_masternodes(new)
                        /\ output' = << Msg("Added", a.value),
                                        Msg("Current tally", Len(masternodes')) >>
                        /\ command' = [Command("add_masternodes", line.input, <<>>,
                                               a.value) EXCEPT !.new = new]
               ELSE /\ masternodes' = masternodes
                    /\ output' = << Msg(a.err, 0) >>
                    /\ command' = Command("prompt_add_masternodes", line.input, <<>>, 0)
    /\ UNCHANGED <<screen, cursorVars, strategyStoreVars, contractVars, pc, loopVars,
                   blockVars, strategyVars, run_request, block_entry, op_log>>
    /\ UNCHANGED populateVars

(***************************************************************************)
(* execute_blocks and execute_block (blockchain/mod.rs).                   *)
(***************************************************************************)
\* a failure that execute_block reports and returns from, the loop going on
Panic_returned ==
    /\ pc' = "execute_blocks"
    /\ transaction' = IF transaction = "open" THEN "dropped" ELSE transaction

\* a panic that leaves the transaction of the block open
Panic_leaking_transaction ==
    /\ pc' = "panicked"
    /\ transaction' = transaction

\* a panic (a failed expect, or a panic inside rand) unwinds the process:
\* the open transaction is dropped and nothing else is touched
Panic ==
    /\ pc' = "panicked"
    /\ transaction' = IF transaction = "open" THEN "dropped" ELSE transaction

\* Explorer::execute_blocks up to the loop: the first height and the range's end
execute_blocks_start == IF IsSome(last_block) THEN Unwrap(last_block).height ELSE 1

\* blockchain_rl -> prompt_execute_blocks -> execute_blocks
PromptExecuteBlocks ==
    /\ AtPrompt("BlockchainScreen")
    /\ \E line \in ExecuteBlocksArguments :
           LET a == line.arg
           IN  IF a.err = "ok"
               THEN /\ execute_blocks_start + a.value - 1 <= MaxHeight
                    /\ height' = execute_blocks_start
                    /\ range_end' = execute_blocks_start + a.value
                    /\ run_request' = Some([last_block |-> last_block, count |-> a.value])
                    /\ pc' = "execute_blocks"
                    /\ output' = <<>>
                    /\ command' = Command("execute_blocks", line.input, <<>>, a.value)
               ELSE /\ output' = << Msg(a.err, 0) >>
                    /\ command' = Command("prompt_execute_blocks", line.input, <<>>, 0)
                    /\ UNCHANGED <<height, range_end, run_request, pc>>
    /\ UNCHANGED <<screen, explorerVars, blockVars, strategyVars, block_entry, op_log>>
    /\ UNCHANGED populateVars

\* the loop building its blocks with time_ms: height + 100
ExecuteBlocksLoop_time_offset ==
    /\ pc = "execute_blocks"
    /\ IF height < range_end
       THEN /\ block' = Block(height, height + 100)
            /\ block_entry' = Some(<<last_block, current_epoch>>)
            /\ pc' = "random_masternode"
            /\ UNCHANGED <<loopVars>>
       ELSE /\ pc' = "readline"
            /\ height' = 0
            /\ range_end' = 0
            /\ UNCHANGED <<block, block_entry>>
    /\ UNCHANGED <<screen, explorerVars, output, masternode, previous_block_time_ms,
                   transaction, response, strategyVars, command, run_request, op_log>>
    /\ UNCHANGED populateVars

\* the for loop of execute_blocks: the next call of execute_block, or the return
ExecuteBlocksLoop ==
    /\ pc = "execute_blocks"
    /\ IF height < range_end
       THEN /\ block' = Block(height, height * 100)
            /\ block_entry' = Some(<<last_block, current_epoch>>)
            /\ pc' = "random_masternode"
            /\ UNCHANGED <<loopVars>>
       ELSE /\ pc' = "readline"
            /\ height' = 0
            /\ range_end' = 0
            /\ UNCHANGED <<block, block_entry>>
    /\ UNCHANGED <<screen, explorerVars, output, masternode, previous_block_time_ms,
                   transaction, response, strategyVars, command, run_request, op_log>>
    /\ UNCHANGED populateVars

\* random_masternode falling back on a default proposer when there is none
RandomMasternode_default_proposer ==
    /\ pc = "random_masternode"
    /\ IF Len(masternodes) = 0
       THEN masternode' = 0
       ELSE \E index \in 1..Len(masternodes) : masternode' = masternodes[index]
    /\ previous_block_time_ms' =
           IF IsSome(last_block) THEN Some(Unwrap(last_block).time_ms) ELSE None
    /\ pc' = "start_transaction"
    /\ UNCHANGED transaction
    /\ UNCHANGED <<screen, explorerVars, output, loopVars, block, response, strategyVars,
                   historyVars>>
    /\ UNCHANGED populateVars

\* execute_block proposing a freshly generated masternode instead of one of
\* the registry
RandomMasternode_new_random ==
    /\ pc = "random_masternode"
    /\ IF Len(masternodes) = 0
       THEN /\ Panic
            /\ UNCHANGED <<masternode, previous_block_time_ms>>
       ELSE /\ \E id \in MasternodeIds : masternode' = id
            /\ previous_block_time_ms' =
                   IF IsSome(last_block) THEN Some(Unwrap(last_block).time_ms) ELSE None
            /\ pc' = "start_transaction"
            /\ UNCHANGED transaction
    /\ UNCHANGED <<screen, explorerVars, output, loopVars, block, response, strategyVars,
                   historyVars>>
    /\ UNCHANGED populateVars

\* Explorer::random_masternode: gen_range(0..len) panics on the empty range
RandomMasternode ==
    /\ pc = "random_masternode"
    /\ IF Len(masternodes) = 0
       THEN /\ Panic
            /\ UNCHANGED <<masternode, previous_block_time_ms>>
       ELSE /\ \E index \in 1..Len(masternodes) : masternode' = masternodes[index]
            /\ previous_block_time_ms' =
                   IF IsSome(last_block) THEN Some(Unwrap(last_block).time_ms) ELSE None
            /\ pc' = "start_transaction"
            /\ UNCHANGED transaction
    /\ UNCHANGED <<screen, explorerVars, output, loopVars, block, response, strategyVars,
                   historyVars>>
    /\ UNCHANGED populateVars

\* platform.drive.grove.start_transaction()
StartTransaction ==
    /\ pc = "start_transaction"
    /\ transaction' = "open"
    /\ pc' = "block_begin"
    /\ UNCHANGED <<screen, explorerVars, output, loopVars, block, masternode,
                   previous_block_time_ms, response, strategyVars, historyVars>>
    /\ UNCHANGED populateVars

\* platform.block_begin(..).expect(..): the engine accepts or rejects the request
BlockBegin ==
    /\ pc = "block_begin"
    /\ \/ /\ pc' = "execute_current_strategy"
          /\ UNCHANGED transaction
       \/ Panic
    /\ UNCHANGED <<screen, explorerVars, output, loopVars, block, masternode,
                   previous_block_time_ms, response, strategyVars, historyVars>>
    /\ UNCHANGED populateVars

\* execute_current_strategy unwrapping the loaded strategy instead of `if let`
ExecuteCurrentStrategy_unwrap ==
    /\ pc = "execute_current_strategy"
    /\ IF IsSome(current_execution_strategy)
       THEN /\ epoch_index' = IF IsSome(current_epoch) THEN Unwrap(current_epoch) ELSE 0
            /\ fees_aggregate' = ZeroFees
            /\ op_idx' = 1
            /\ documents' = 0
            /\ op_log' = <<>>
            /\ pc' = "strategy_op"
            /\ UNCHANGED transaction
       ELSE /\ Panic
            /\ UNCHANGED <<strategyVars, op_log>>
    /\ UNCHANGED <<screen, explorerVars, output, loopVars, block, masternode,
                   previous_block_time_ms, response, command, run_request, block_entry>>
    /\ UNCHANGED populateVars

\* execute_block passing epoch 0 to every workload
ExecuteCurrentStrategy_epoch_zero ==
    /\ pc = "execute_current_strategy"
    /\ epoch_index' = 0
    /\ fees_aggregate' = ZeroFees
    /\ op_idx' = 1
    /\ documents' = 0
    /\ op_log' = <<>>
    /\ pc' = "strategy_op"
    /\ UNCHANGED <<screen, explorerVars, output, loopVars, blockVars, command,
                   run_request, block_entry>>
    /\ UNCHANGED populateVars

\* the call of execute_current_strategy and its first statements
ExecuteCurrentStrategy ==
    /\ pc = "execute_current_strategy"
    /\ epoch_index' = IF IsSome(current_epoch) THEN Unwrap(current_epoch) ELSE 0
    /\ fees_aggregate' = ZeroFees
    /\ op_idx' = 1
    /\ documents' = 0
    /\ op_log' = <<>>
    /\ pc' = "strategy_op"
    /\ UNCHANGED <<screen, explorerVars, output, loopVars, blockVars, command,
                   run_request, block_entry>>
    /\ UNCHANGED populateVars

(***************************************************************************)
(* execute_current_strategy (blockchain/mod.rs).  An f64 chance is held in *)
(* thousandths.                                                            *)
(***************************************************************************)
Range(a, b) == [start |-> a, end |-> b]

Frequency(r, c) == [times_per_block_range |-> r, chance_per_block |-> c]

\* the loaded strategy's operations; none when no strategy is loaded
LoadedOperations ==
    IF IsSome(current_execution_strategy)
    THEN Unwrap(current_execution_strategy)[2].operations
    ELSE <<>>

\* Rng::gen_bool(p) panics unless 0 <= p <= 1
GenBoolPanics(p) == p < 0 \/ p > 1000

\* a gen_bool that can return either value for every p
GenBool_either(p) == BOOLEAN

\* Rng::gen_bool(p): the values it can return
GenBool(p) == IF p = 0 THEN {FALSE} ELSE IF p = 1000 THEN {TRUE} ELSE BOOLEAN

\* Rng::gen_range(range) panics on an empty range
GenRangePanics(r) == r.start >= r.end

\* a gen_range that takes the range as inclusive of its end
GenRange_inclusive(r) == r.start .. r.end

\* Rng::gen_range(range): the values it can return
GenRange(r) == r.start .. (r.end - 1)

\* the values happens_this_block can take for a frequency
HappensThisBlock(frequency) ==
    IF IsSome(frequency.chance_per_block)
    THEN GenBool(Unwrap(frequency.chance_per_block))
    ELSE {TRUE}

LogEntry(fired, count) == [fired |-> fired, count |-> count, results |-> <<>>]

\* the turn of the loop with the count drawn before happens_this_block
StrategyOp_count_drawn_first ==
    /\ pc = "strategy_op"
    /\ IF op_idx > Len(LoadedOperations)
       THEN /\ pc' = "block_end"
            /\ UNCHANGED <<op_idx, documents, op_log, transaction>>
       ELSE LET frequency == LoadedOperations[op_idx][2]
            IN  IF \/ GenRangePanics(frequency.times_per_block_range)
                   \/ /\ IsSome(frequency.chance_per_block)
                      /\ GenBoolPanics(Unwrap(frequency.chance_per_block))
                THEN /\ Panic
                     /\ UNCHANGED <<op_idx, documents, op_log>>
                ELSE \E count \in GenRange(frequency.times_per_block_range),
                        happens_this_block \in HappensThisBlock(frequency) :
                       IF ~happens_this_block
                       THEN /\ op_log' = Append(op_log, LogEntry(FALSE, 0))
                            /\ op_idx' = op_idx + 1
                            /\ UNCHANGED <<pc, documents, transaction>>
                       ELSE /\ op_log' = Append(op_log, LogEntry(TRUE, count))
                            /\ documents' = count
                            /\ IF count = 0
                               THEN /\ op_idx' = op_idx + 1
                                    /\ UNCHANGED pc
                               ELSE /\ pc' = "add_document"
                                    /\ UNCHANGED op_idx
                            /\ UNCHANGED transaction
    /\ UNCHANGED <<screen, explorerVars, output, loopVars, block, masternode,
                   previous_block_time_ms, response, epoch_index, fees_aggregate,
                   command, run_request, block_entry>>
    /\ UNCHANGED populateVars

\* one turn of `for (op, frequency) in &strategy.operations`, up to the documents
StrategyOp ==
    /\ pc = "strategy_op"
    /\ IF op_idx > Len(LoadedOperations)
       THEN /\ pc' = "block_end"
            /\ UNCHANGED <<op_idx, documents, op_log, transaction>>
       ELSE LET frequency == LoadedOperations[op_idx][2]
            IN  IF /\ IsSome(frequency.chance_per_block)
                   /\ GenBoolPanics(Unwrap(frequency.chance_per_block))
                THEN /\ Panic
                     /\ UNCHANGED <<op_idx, documents, op_log>>
                ELSE \E happens_this_block \in HappensThisBlock(frequency) :
                       IF ~happens_this_block
                       THEN /\ op_log' = Append(op_log, LogEntry(FALSE, 0))
                            /\ op_idx' = op_idx + 1
                            /\ UNCHANGED <<pc, documents, transaction>>
                       ELSE IF GenRangePanics(frequency.times_per_block_range)
                            THEN /\ Panic
                                 /\ op_log' = Append(op_log, LogEntry(TRUE, 0))
                                 /\ UNCHANGED <<op_idx, documents>>
                            ELSE \E count \in GenRange(frequency.times_per_block_range) :
                                   /\ op_log' = Append(op_log, LogEntry(TRUE, count))
                                   /\ documents' = count
                                   /\ IF count = 0
                                      THEN /\ op_idx' = op_idx + 1
                                           /\ UNCHANGED pc
                                      ELSE /\ pc' = "add_document"
                                           /\ UNCHANGED op_idx
                                   /\ UNCHANGED transaction
    /\ UNCHANGED <<screen, explorerVars, output, loopVars, block, masternode,
                   previous_block_time_ms, response, epoch_index, fees_aggregate,
                   command, run_request, block_entry>>
    /\ UNCHANGED populateVars

\* `a += b` on u64: the sum, and whether it overflowed
AddU64(a, b) == [value |-> (a + b) % U64Modulus, overflow |-> a + b >= U64Modulus]

\* fees_aggregate.storage_fees += storage_fee as u64; .processing_fees += processing_fee
AddFees(fees, storage_fee, processing_fee) ==
    LET s == AddU64(fees.storage_fees, AsU64(storage_fee))
        p == AddU64(fees.processing_fees, processing_fee)
    IN  [fees |-> [processing_fees |-> p.value, storage_fees |-> s.value],
         overflow |-> s.overflow \/ p.overflow]

AppendResult(log, r) ==
    [log EXCEPT ![Len(log)].results = Append(@, r)]

\* the document loop taking a failed insertion as the end of the workload
AddDocument_failure_ends_workload ==
    /\ pc = "add_document"
    /\ \/ /\ pc' = "block_end"
          /\ UNCHANGED <<fees_aggregate, documents, op_idx, op_log, transaction>>
       \/ \E r \in FeeResults :
            LET sum == AddFees(fees_aggregate, r[1], r[2])
            IN  \/ /\ sum.overflow
                   /\ Panic
                   /\ op_log' = AppendResult(op_log, r)
                   /\ UNCHANGED <<fees_aggregate, documents, op_idx>>
                \/ /\ fees_aggregate' = sum.fees
                   /\ op_log' = AppendResult(op_log, r)
                   /\ documents' = documents - 1
                   /\ IF documents = 1
                      THEN /\ op_idx' = op_idx + 1
                           /\ pc' = "strategy_op"
                      ELSE UNCHANGED <<op_idx, pc>>
                   /\ UNCHANGED transaction
    /\ UNCHANGED <<screen, explorerVars, output, loopVars, block, masternode,
                   previous_block_time_ms, response, epoch_index, command, run_request,
                   block_entry>>
    /\ UNCHANGED populateVars

\* one turn of `for document in &documents`: add_document_for_contract fails
\* (the expect panics) or returns its fees; an overflowing += panics in a
\* build with overflow checks and wraps in one without
AddDocument ==
    /\ pc = "add_document"
    /\ \/ /\ Panic
          /\ UNCHANGED <<fees_aggregate, documents, op_idx, op_log>>
       \/ \E r \in FeeResults :
            LET sum == AddFees(fees_aggregate, r[1], r[2])
            IN  \/ /\ sum.overflow
                   /\ Panic
                   /\ op_log' = AppendResult(op_log, r)
                   /\ UNCHANGED <<fees_aggregate, documents, op_idx>>
                \/ /\ fees_aggregate' = sum.fees
                   /\ op_log' = AppendResult(op_log, r)
                   /\ documents' = documents - 1
                   /\ IF documents = 1
                      THEN /\ op_idx' = op_idx + 1
                           /\ pc' = "strategy_op"
                      ELSE UNCHANGED <<op_idx, pc>>
                   /\ UNCHANGED transaction
    /\ UNCHANGED <<screen, explorerVars, output, loopVars, block, masternode,
                   previous_block_time_ms, response, epoch_index, command, run_request,
                   block_entry>>
    /\ UNCHANGED populateVars

\* execute_block going from block_end to the cursor, the commit left out
BlockEnd_without_commit ==
    /\ pc = "block_end"
    /\ \/ /\ Panic
          /\ UNCHANGED response
       \/ /\ \E change \in BOOLEAN, index \in EpochIndexes :
               response' = [is_epoch_change |-> change, current_epoch_index |-> index]
          /\ pc' = "advance_cursor"
          /\ UNCHANGED transaction
    /\ UNCHANGED <<screen, explorerVars, output, loopVars, block, masternode,
                   previous_block_time_ms, strategyVars, historyVars>>
    /\ UNCHANGED populateVars

\* platform.block_end(BlockEndRequest { fees }, ..).expect(..)
BlockEnd ==
    /\ pc = "block_end"
    /\ \/ /\ Panic
          /\ UNCHANGED response
       \/ /\ \E change \in BOOLEAN, index \in EpochIndexes :
               response' = [is_epoch_change |-> change, current_epoch_index |-> index]
          /\ pc' = "commit_transaction"
          /\ UNCHANGED transaction
    /\ UNCHANGED <<screen, explorerVars, output, loopVars, block, masternode,
                   previous_block_time_ms, strategyVars, historyVars>>
    /\ UNCHANGED populateVars

\* execute_block with `self.last_block = Some(block)` moved before the commit
CommitTransaction_cursor_first ==
    /\ pc = "commit_transaction"
    /\ last_block' = Some(block)
    /\ \/ Panic
       \/ /\ transaction' = "committed"
          /\ pc' = "advance_cursor"
    /\ UNCHANGED <<screen, masternodes, current_epoch, strategyStoreVars, contractVars,
                   output, loopVars, block, masternode, previous_block_time_ms, response,
                   strategyVars, historyVars>>
    /\ UNCHANGED populateVars

\* platform.drive.commit_transaction(transaction).expect(..)
CommitTransaction ==
    /\ pc = "commit_transaction"
    /\ \/ Panic
       \/ /\ transaction' = "committed"
          /\ pc' = "advance_cursor"
    /\ UNCHANGED <<screen, explorerVars, output, loopVars, block, masternode,
                   previous_block_time_ms, response, strategyVars, historyVars>>
    /\ UNCHANGED populateVars

\* execute_block taking the epoch of every block_end response
AdvanceCursor_always_new_epoch ==
    /\ pc = "advance_cursor"
    /\ last_block' = Some(block)
    /\ current_epoch' = Some(response.current_epoch_index)
    /\ height' = height + 1
    /\ pc' = "execute_blocks"
    /\ block' = NoBlock
    /\ masternode' = 0
    /\ previous_block_time_ms' = None
    /\ transaction' = "none"
    /\ response' = NoResponse
    /\ epoch_index' = 0
    /\ fees_aggregate' = ZeroFees
    /\ op_idx' = 0
    /\ documents' = 0
    /\ block_entry' = None
    /\ op_log' = <<>>
    /\ UNCHANGED <<screen, masternodes, strategyStoreVars, contractVars, output,
                   range_end, command, run_request>>
    /\ UNCHANGED populateVars

\* the last statements of execute_block, and the loop's increment
AdvanceCursor ==
    /\ pc = "advance_cursor"
    /\ last_block' = Some(block)
    /\ current_epoch' = IF response.is_epoch_change
                        THEN Some(response.current_epoch_index)
                        ELSE current_epoch
    /\ height' = height + 1
    /\ pc' = "execute_blocks"
    /\ block' = NoBlock
    /\ masternode' = 0
    /\ previous_block_time_ms' = None
    /\ transaction' = "none"
    /\ response' = NoResponse
    /\ epoch_index' = 0
    /\ fees_aggregate' = ZeroFees
    /\ op_idx' = 0
    /\ documents' = 0
    /\ block_entry' = None
    /\ op_log' = <<>>
    /\ UNCHANGED <<screen, masternodes, strategyStoreVars, contractVars, output,
                   range_end, command, run_request>>
    /\ UNCHANGED populateVars

(***************************************************************************)
(* The strategy screen (blockchain/strategy.rs).                           *)
(***************************************************************************)
Strategy(ops) == [operations |-> ops]

DocumentOp(contract, document_type) == [contract |-> contract, document_type |-> document_type]

\* the Contract open_contract reads from the path of the model
FamilyContract == [document_types |-> {S_person}]

HasKey(map, k) == k \in DOMAIN map

\* BTreeMap::insert
MapInsert(map, k, v) == [x \in DOMAIN map \cup {k} |-> IF x = k THEN v ELSE map[x]]

\* the branch of strategy_rl an input line takes
StrategyCommand(input) ==
    IF input = S_view_all \/ input = S_va THEN "view_all"
    ELSE IF input = S_view \/ input = S_v THEN "view"
    ELSE IF StartsWith(input, S_load_strategy \o Sp) \/ StartsWith(input, S_l \o Sp)
         THEN "load_strategy"
    ELSE IF StartsWith(input, S_new_strategy \o Sp) \/ StartsWith(input, S_n \o Sp)
         THEN "new_strategy"
    ELSE IF StartsWith(input, S_dup_strategy \o Sp) \/ StartsWith(input, S_dup \o Sp)
         THEN "dup_strategy"
    ELSE IF input = S_save_strategy \o Sp \/ input = S_s THEN "save_strategy"
    ELSE IF input = S_contracts \/ input = S_c THEN "contracts"
    ELSE IF StartsWith(input, S_add_contract \o Sp) \/ StartsWith(input, S_ac \o Sp)
         THEN "add_contract"
    ELSE IF StartsWith(input, S_add_op \o Sp) \/ StartsWith(input, S_a \o Sp)
         THEN "add_op"
    ELSE IF input = S_exit THEN "exit"
    ELSE "other"

\* the argument check prompt_load_strategy, prompt_new_strategy and
\* prompt_dup_strategy share: "ok" with the alias, or the error
AliasArgument(input) ==
    LET args == SplitWhitespace(input)
    IN  IF Len(args) > 2 THEN [err |-> "ERROR_max_params", alias |-> <<>>]
        ELSE IF Len(args) < 2 THEN [err |-> "ERROR_min_params", alias |-> <<>>]
        ELSE [err |-> "ok", alias |-> args[2]]

\* save_available_strategies: the store is written out in full
save_available_strategies(store) == store

\* load_strategy assigning the result of the lookup, found or not
load_strategy_assigning_lookup(alias) ==
    IF DOMAIN available_strategies = {}
    THEN [current |-> current_execution_strategy, msg |-> "No available strategies to load"]
    ELSE IF ~HasKey(available_strategies, alias)
         THEN [current |-> None, msg |-> "No available strategy for"]
         ELSE [current |-> Some(<<alias, available_strategies[alias]>>),
               msg |-> "Loaded strategy"]

\* load_strategy loading an empty strategy under the alias it finds
load_strategy_without_operations(alias) ==
    IF DOMAIN available_strategies = {}
    THEN [current |-> current_execution_strategy, msg |-> "No available strategies to load"]
    ELSE IF ~HasKey(available_strategies, alias)
         THEN [current |-> current_execution_strategy, msg |-> "No available strategy for"]
         ELSE [current |-> Some(<<alias, Strategy(<<>>)>>), msg |-> "Loaded strategy"]

\* Explorer::load_strategy: the loaded slot and the message
load_strategy(alias) ==
    IF DOMAIN available_strategies = {}
    THEN [current |-> current_execution_strategy, msg |-> "No available strategies to load"]
    ELSE IF ~HasKey(available_strategies, alias)
         THEN [current |-> current_execution_strategy, msg |-> "No available strategy for"]
         ELSE [current |-> Some(<<alias, available_strategies[alias]>>),
               msg |-> "Loaded strategy"]

\* new_strategy taking the stored strategy where the alias is stored already
new_strategy_keeping_stored(alias) ==
    IF HasKey(available_strategies, alias)
    THEN Some(<<alias, available_strategies[alias]>>)
    ELSE Some(<<alias, Strategy(<<>>)>>)

\* Explorer::new_strategy
new_strategy(alias) == Some(<<alias, Strategy(<<>>)>>)

\* dup_strategy writing the loaded strategy under the new alias
dup_strategy_under_new_alias(alias) ==
    IF ~IsSome(current_execution_strategy)
    THEN [store |-> available_strategies, current |-> current_execution_strategy,
          saved |-> FALSE, msg |-> "ERROR_no_current_strategy_to_duplicate"]
    ELSE LET strategy == Unwrap(current_execution_strategy)[2]
         IN  [store |-> MapInsert(available_strategies, alias, strategy),
              current |-> Some(<<alias, strategy>>),
              saved |-> TRUE, msg |-> "Duplicated strategy as"]

\* dup_strategy without the insertion into available_strategies
dup_strategy_without_insert(alias) ==
    IF ~IsSome(current_execution_strategy)
    THEN [store |-> available_strategies, current |-> current_execution_strategy,
          saved |-> FALSE, msg |-> "ERROR_no_current_strategy_to_duplicate"]
    ELSE LET strategy == Unwrap(current_execution_strategy)[2]
         IN  [store |-> available_strategies,
              current |-> Some(<<alias, strategy>>),
              saved |-> TRUE, msg |-> "Duplicated strategy as"]

\* Explorer::dup_strategy: the store, the loaded slot and the message
dup_strategy(alias) ==
    IF ~IsSome(current_execution_strategy)
    THEN [store |-> available_strategies, current |-> current_execution_strategy,
          saved |-> FALSE, msg |-> "ERROR_no_current_strategy_to_duplicate"]
    ELSE LET previous_alias == Unwrap(current_execution_strategy)[1]
             strategy == Unwrap(current_execution_strategy)[2]
         IN  [store |-> MapInsert(available_strategies, previous_alias, strategy),
              current |-> Some(<<alias, strategy>>),
              saved |-> TRUE, msg |-> "Duplicated strategy as"]

\* save_strategy inserting only where the alias is not stored yet
save_strategy_or_insert ==
    IF ~IsSome(current_execution_strategy)
    THEN [store |-> available_strategies, saved |-> FALSE,
          msg |-> "ERROR_no_current_strategy_to_save"]
    ELSE LET alias == Unwrap(current_execution_strategy)[1]
             strategy == Unwrap(current_execution_strategy)[2]
         IN  [store |-> IF HasKey(available_strategies, alias)
                        THEN available_strategies
                        ELSE MapInsert(available_strategies, alias, strategy),
              saved |-> TRUE, msg |-> "Saved strategy"]

\* save_strategy writing a store that holds the loaded strategy alone
save_strategy_replacing_store ==
    IF ~IsSome(current_execution_strategy)
    THEN [store |-> available_strategies, saved |-> FALSE,
          msg |-> "ERROR_no_current_strategy_to_save"]
    ELSE LET alias == Unwrap(current_execution_strategy)[1]
             strategy == Unwrap(current_execution_strategy)[2]
         IN  [store |-> MapInsert(EmptyMap, alias, strategy),
              saved |-> TRUE, msg |-> "Saved strategy"]

\* Explorer::save_strategy: the store and the message
save_strategy ==
    IF ~IsSome(current_execution_strategy)
    THEN [store |-> available_strategies, saved |-> FALSE,
          msg |-> "ERROR_no_current_strategy_to_save"]
    ELSE LET alias == Unwrap(current_execution_strategy)[1]
             strategy == Unwrap(current_execution_strategy)[2]
         IN  [store |-> MapInsert(available_strategies, alias, strategy),
              saved |-> TRUE, msg |-> "Saved strategy"]

\* add_strategy_op putting the operation first instead of pushing it
add_strategy_op_first(document_op, frequency) ==
    IF ~IsSome(current_execution_strategy)
    THEN [current |-> current_execution_strategy, msg |-> "ERROR_no_current_strategy"]
    ELSE LET alias == Unwrap(current_execution_strategy)[1]
             strategy == Unwrap(current_execution_strategy)[2]
         IN  [current |-> Some(<<alias,
                                 Strategy(<< <<document_op, frequency>> >>
                                              \o strategy.operations)>>),
              msg |-> "added op to strategy"]

\* Explorer::add_strategy_op: the loaded slot and the message
add_strategy_op(document_op, frequency) ==
    IF ~IsSome(current_execution_strategy)
    THEN [current |-> current_execution_strategy, msg |-> "ERROR_no_current_strategy"]
    ELSE LET alias == Unwrap(current_execution_strategy)[1]
             strategy == Unwrap(current_execution_strategy)[2]
         IN  [current |-> Some(<<alias,
                                 Strategy(Append(strategy.operations,
                                                 <<document_op, frequency>>))>>),
              msg |-> "added op to strategy"]

\* get_u16_range_from_input with `tpb_args.len() < 2` for `!= 2`
get_u16_range_from_input_first_two(input) ==
    LET tpb_args == SplitDots(input)
    IN  IF Len(tpb_args) < 2
        THEN [range |-> None, msg |-> "ERROR_range_format"]
        ELSE LET tpb_start == ParseU16(tpb_args[1])
                 tpb_end == ParseU16(tpb_args[2])
             IN  IF ~tpb_start.ok
                 THEN [range |-> None, msg |-> "ERROR_lower_bound_not_integer"]
                 ELSE IF ~tpb_end.ok
                      THEN [range |-> None, msg |-> "ERROR_upper_bound_not_integer"]
                      ELSE [range |-> Some(Range(tpb_start.value, tpb_end.value)),
                            msg |-> "ok"]

\* get_u16_range_from_input: Some(range), or None with the error printed
get_u16_range_from_input(input) ==
    LET tpb_args == SplitDots(input)
    IN  IF Len(tpb_args) # 2
        THEN [range |-> None, msg |-> "ERROR_range_format"]
        ELSE LET tpb_start == ParseU16(tpb_args[1])
                 tpb_end == ParseU16(tpb_args[2])
             IN  IF ~tpb_start.ok
                 THEN [range |-> None, msg |-> "ERROR_lower_bound_not_integer"]
                 ELSE IF ~tpb_end.ok
                      THEN [range |-> None, msg |-> "ERROR_upper_bound_not_integer"]
                      ELSE [range |-> Some(Range(tpb_start.value, tpb_end.value)),
                            msg |-> "ok"]

\* the lines of the strategy screen that take the branch c of strategy_rl
StrategyInputs(c) == { input \in StrategyLines : StrategyCommand(input) = c }

AddOpInputs == StrategyInputs("add_op")

\* what prompt_add_op parses out of each add_op line: its words, and the
\* range and the chance where the line has the words for them
AddOpParsed ==
    [input \in AddOpInputs |->
        LET args == SplitWhitespace(input)
        IN  [args |-> args,
             range |-> IF Len(args) >= 4 THEN get_u16_range_from_input(args[4])
                       ELSE [range |-> None, msg |-> "ERROR_min_params"],
             chance |-> IF Len(args) >= 5 THEN ParseF64(args[5])
                        ELSE [ok |-> FALSE, value |-> 0]]]

\* prompt_add_op up to the call of add_strategy_op: "ok" with the operation
\* and the frequency, or the error printed
AddOpArguments(input) ==
    LET args == AddOpParsed[input].args
        none == [err |-> "ok", op |-> <<>>, frequency |-> <<>>]
    IN  IF Len(args) > 5 THEN [none EXCEPT !.err = "ERROR_max_params"]
        ELSE IF Len(args) < 4 THEN [none EXCEPT !.err = "ERROR_min_params"]
        ELSE IF ~HasKey(available_contracts, args[2])
             THEN [none EXCEPT !.err = "ERROR_no_contract"]
        ELSE LET contract == available_contracts[args[2]]
             IN  IF args[3] \notin contract.document_types
                 THEN [none EXCEPT !.err = "ERROR_no_document_type"]
                 ELSE LET r == AddOpParsed[input].range
                      IN  IF ~IsSome(r.range) THEN [none EXCEPT !.err = r.msg]
                          ELSE IF Len(args) = 5
                               THEN LET chance == AddOpParsed[input].chance
                                    IN  IF ~chance.ok
                                        THEN [none EXCEPT !.err = "ERROR_chance_parse"]
                                        ELSE [err |-> "ok",
                                              op |-> DocumentOp(contract, args[3]),
                                              frequency |-> Frequency(Unwrap(r.range),
                                                                      Some(chance.value))]
                               ELSE [err |-> "ok",
                                     op |-> DocumentOp(contract, args[3]),
                                     frequency |-> Frequency(Unwrap(r.range), None)]

\* those lines, with what the argument check of the prompt makes of each
AliasArguments(c) == { [input |-> input, arg |-> AliasArgument(input)] :
                         input \in StrategyInputs(c) }

LoadStrategyArguments == AliasArguments("load_strategy")
NewStrategyArguments == AliasArguments("new_strategy")
DupStrategyArguments == AliasArguments("dup_strategy")
SaveStrategyInputs == StrategyInputs("save_strategy")
AddContractArguments ==
    { [input |-> input, args |-> SplitWhitespace(input)] :
        input \in StrategyInputs("add_contract") }
StrategyOtherCommands ==
    { c \in { [input |-> input, branch |-> StrategyCommand(input)] :
                 input \in StrategyLines } :
        c.branch \in {"view_all", "view", "contracts", "exit", "other"} }

\* what a strategy command leaves alone
StrategyFrame ==
    UNCHANGED <<screen, masternodes, cursorVars, pc, loopVars, blockVars, strategyVars,
                run_request, block_entry, op_log>>

\* strategy_rl -> prompt_load_strategy -> load_strategy
PromptLoadStrategy ==
    /\ AtPrompt("StrategyScreen")
    /\ \E line \in LoadStrategyArguments :
           LET a == line.arg
           IN  IF a.err = "ok"
               THEN /\ current_execution_strategy' = load_strategy(a.alias).current
                    /\ output' = << Msg(load_strategy(a.alias).msg, 0) >>
                    /\ command' = Command("load_strategy", line.input, a.alias, 0)
               ELSE /\ output' = << Msg(a.err, 0) >>
                    /\ command' = Command("prompt_load_strategy", line.input, <<>>, 0)
                    /\ UNCHANGED current_execution_strategy
    /\ UNCHANGED <<available_strategies, strategies_file, contractVars>>
    /\ StrategyFrame
    /\ UNCHANGED populateVars

\* strategy_rl -> prompt_new_strategy -> new_strategy
PromptNewStrategy ==
    /\ AtPrompt("StrategyScreen")
    /\ \E line \in NewStrategyArguments :
           LET a == line.arg
           IN  IF a.err = "ok"
               THEN /\ current_execution_strategy' = new_strategy(a.alias)
                    /\ output' = << Msg("New strategy", 0) >>
                    /\ command' = Command("new_strategy", line.input, a.alias, 0)
               ELSE /\ output' = << Msg(a.err, 0) >>
                    /\ command' = Command("prompt_new_strategy", line.input, <<>>, 0)
                    /\ UNCHANGED current_execution_strategy
    /\ UNCHANGED <<available_strategies, strategies_file, contractVars>>
    /\ StrategyFrame
    /\ UNCHANGED populateVars

\* strategy_rl -> prompt_dup_strategy -> dup_strategy
PromptDupStrategy ==
    /\ AtPrompt("StrategyScreen")
    /\ \E line \in DupStrategyArguments :
           LET a == line.arg
           IN  IF a.err = "ok"
               THEN LET d == dup_strategy(a.alias)
                    IN  /\ available_strategies' = d.store
                        /\ strategies_file' = IF d.saved
                                              THEN save_available_strategies(d.store)
                                              ELSE strategies_file
                        /\ current_execution_strategy' = d.current
                        /\ output' = << Msg(d.msg, 0) >>
                        /\ command' = Command("dup_strategy", line.input, a.alias, 0)
               ELSE /\ output' = << Msg(a.err, 0) >>
                    /\ command' = Command("prompt_dup_strategy", line.input, <<>>, 0)
                    /\ UNCHANGED strategyStoreVars
    /\ UNCHANGED contractVars
    /\ StrategyFrame
    /\ UNCHANGED populateVars

\* strategy_rl -> save_strategy
SaveStrategy ==
    /\ AtPrompt("StrategyScreen")
    /\ \E input \in SaveStrategyInputs :
        /\ available_strategies' = save_strategy.store
        /\ strategies_file' = IF save_strategy.saved
                              THEN save_available_strategies(save_strategy.store)
                              ELSE strategies_file
        /\ output' = << Msg(save_strategy.msg, 0) >>
        /\ command' = Command("save_strategy", input, <<>>, 0)
    /\ UNCHANGED <<current_execution_strategy, contractVars>>
    /\ StrategyFrame
    /\ UNCHANGED populateVars

\* strategy_rl -> prompt_add_contract -> add_contract; open_contract reads the
\* contract from the path or fails
PromptAddContract ==
    /\ AtPrompt("StrategyScreen")
    /\ \E line \in AddContractArguments :
           LET args == line.args
           IN  IF Len(args) > 3
               THEN /\ output' = << Msg("ERROR_max_params", 0) >>
                    /\ command' = Command("prompt_add_contract", line.input, <<>>, 0)
                    /\ UNCHANGED contractVars
               ELSE IF Len(args) < 3
               THEN /\ output' = << Msg("ERROR_min_params", 0) >>
                    /\ command' = Command("prompt_add_contract", line.input, <<>>, 0)
                    /\ UNCHANGED contractVars
               ELSE /\ command' = Command("add_contract", line.input, args[2], 0)
                    /\ \/ /\ contract_paths' = MapInsert(contract_paths, args[2], args[3])
                          /\ available_contracts' =
                                 MapInsert(available_contracts, args[2], FamilyContract)
                          /\ output' = << Msg("Successfully added contract", 0) >>
                       \/ /\ output' = << Msg("ERROR_unable_to_load_contract", 0) >>
                          /\ UNCHANGED contractVars
    /\ UNCHANGED strategyStoreVars
    /\ StrategyFrame
    /\ UNCHANGED populateVars

\* strategy_rl -> prompt_add_op -> add_strategy_op
PromptAddOp ==
    /\ AtPrompt("StrategyScreen")
    /\ \E input \in AddOpInputs :
           LET a == AddOpArguments(input)
           IN  IF a.err = "ok"
               THEN /\ Len(LoadedOperations) < MaxOps
                    /\ current_execution_strategy' =
                           add_strategy_op(a.op, a.frequency).current
                    /\ output' = << Msg(add_strategy_op(a.op, a.frequency).msg, 0) >>
                    /\ command' = Command("add_strategy_op", input, <<>>, 0)
               ELSE /\ output' = << Msg(a.err, 0) >>
                    /\ command' = Command("prompt_add_op", input, <<>>, 0)
                    /\ UNCHANGED current_execution_strategy
    /\ UNCHANGED <<available_strategies, strategies_file, contractVars>>
    /\ StrategyFrame
    /\ UNCHANGED populateVars

(***************************************************************************)
(* Input lines that only print or change the screen, and read errors.      *)
(***************************************************************************)
NavigationFrame ==
    UNCHANGED <<explorerVars, pc, loopVars, blockVars, strategyVars, run_request,
                block_entry, op_log>>

\* blockchain_rl: the branches that call no prompt, and Err(_)
BlockchainNavigate ==
    /\ AtPrompt("BlockchainScreen")
    /\ \/ \E c \in BlockchainOtherCommands :
                /\ screen' = IF c.branch = "strategy" THEN "StrategyScreen"
                             ELSE IF c.branch = "exit" THEN "MainScreen"
                             ELSE "BlockchainScreen"
                /\ output' = <<>>
                /\ command' = Command(c.branch, c.input, <<>>, 0)
       \/ /\ screen' = "BlockchainScreen"
          /\ output' = << Msg("no input, try again", 0) >>
          /\ command' = Command("read_error", <<>>, <<>>, 0)
    /\ NavigationFrame
    /\ UNCHANGED populateVars

\* strategy_rl: the branches that only print, exit, and Err(_)
StrategyNavigate ==
    /\ AtPrompt("StrategyScreen")
    /\ \/ \E c \in StrategyOtherCommands :
                /\ screen' = IF c.branch = "exit" THEN "BlockchainScreen"
                             ELSE "StrategyScreen"
                /\ output' = IF c.branch \in {"exit", "other"} THEN <<>>
                             ELSE << Msg(c.branch, 0) >>
                /\ command' = Command(c.branch, c.input, <<>>, 0)
       \/ /\ screen' = "StrategyScreen"
          /\ output' = << Msg("no input, try again", 0) >>
          /\ command' = Command("read_error", <<>>, <<>>, 0)
    /\ NavigationFrame
    /\ UNCHANGED populateVars

\* the steps of a run of execute_blocks
BlockSteps ==
    \/ ExecuteBlocksLoop
    \/ RandomMasternode
    \/ StartTransaction
    \/ BlockBegin
    \/ ExecuteCurrentStrategy
    \/ StrategyOp
    \/ AddDocument
    \/ BlockEnd
    \/ CommitTransaction
    \/ AdvanceCursor

StrategySteps ==
    \/ PromptLoadStrategy
    \/ PromptNewStrategy
    \/ PromptDupStrategy
    \/ SaveStrategy
    \/ PromptAddContract
    \/ PromptAddOp

Next ==
    \/ PromptAddMasternodes
    \/ PromptExecuteBlocks
    \/ BlockSteps
    \/ StrategySteps
    \/ BlockchainNavigate
    \/ StrategyNavigate

Spec == Init /\ [][Next]_vars

\* the strategy screen alone, from a fresh Explorer
InitStrategy == Init

\* the strategies the runs of execute_blocks are tried with: none, and
\* operation lists add_op can build
PersonOp == DocumentOp(FamilyContract, S_person)

ChainOperations ==
    { <<>>,
      << <<PersonOp, Frequency(Range(2, 3), None)>> >>,
      << <<PersonOp, Frequency(Range(1, 3), Some(0))>>,
         <<PersonOp, Frequency(Range(1, 2), Some(1000))>> >>,
      << <<PersonOp, Frequency(Range(1, 3), Some(500))>>,
         <<PersonOp, Frequency(Range(1, 2), None)>> >>,
      << <<PersonOp, Frequency(Range(2, 2), Some(500))>> >>,
      << <<PersonOp, Frequency(Range(3, 1), Some(1500))>> >> }

\* the blockchain screen, with no strategy or one of ChainOperations loaded
InitChain ==
    /\ screen = "BlockchainScreen"
    /\ masternodes = <<>>
    /\ last_block = None
    /\ current_epoch = None
    /\ available_strategies = EmptyMap
    /\ current_execution_strategy \in
           {None} \cup { Some(<<S_s1, Strategy(ops)>>) : ops \in ChainOperations }
    /\ available_contracts = MapInsert(EmptyMap, S_c1, FamilyContract)
    /\ contract_paths = MapInsert(EmptyMap, S_c1, S_path)
    /\ strategies_file = EmptyMap
    /\ output = <<>>
    /\ command = Command("none", <<>>, <<>>, 0)
    /\ pc = "readline"
    /\ run_request = None
    /\ IdleLocals
    /\ PopulateIdle

NextChain ==
    \/ PromptAddMasternodes
    \/ PromptExecuteBlocks
    \/ BlockSteps
    \/ BlockchainNavigate
    \/ StrategyNavigate

SpecChain == InitChain /\ [][NextChain]_vars

NextStrategy ==
    \/ StrategySteps
    \/ BlockchainNavigate
    \/ StrategyNavigate

SpecStrategy == InitStrategy /\ [][NextStrategy]_vars

\* both screens together, from a fresh Explorer, within the Explorer bounds
SmallStore ==
    /\ Len(LoadedOperations) <= ExplorerOps
    /\ Cardinality(DOMAIN available_strategies) <= ExplorerStored
    /\ \A k \in DOMAIN available_strategies :
          Len(available_strategies[k].operations) <= ExplorerOps

SmallChain ==
    /\ Len(masternodes) <= ExplorerRegistry
    /\ range_end <= ExplorerBlocks + 1

NextExplorer ==
    \/ NextStrategy /\ SmallStore'
    \/ (PromptAddMasternodes \/ PromptExecuteBlocks \/ BlockSteps) /\ SmallChain'

SpecExplorer == Init /\ [][NextExplorer]_vars

(***************************************************************************)
(* populate_with_documents (contract.rs) and populate_with_identities      *)
(* (identity.rs): one transaction around a batch of insertions.            *)
(***************************************************************************)
\* `a += b` on i64: the sum in two's complement, and whether it overflowed
AddI64(a, b) ==
    LET half == U64Modulus \div 2
    IN  [value |-> ((a + b + half) % U64Modulus) - half,
         overflow |-> a + b >= half \/ a + b < -half]

PopulateOk(fees) == [ok |-> TRUE, value |-> fees]
PopulateErr == [ok |-> FALSE, value |-> <<0, 0>>]

\* the call, with the batch it is given
InitPopulate ==
    /\ screen = "BlockchainScreen"
    /\ masternodes = <<>>
    /\ last_block = None
    /\ current_epoch = None
    /\ available_strategies = EmptyMap
    /\ current_execution_strategy = None
    /\ available_contracts = MapInsert(EmptyMap, S_c1, FamilyContract)
    /\ contract_paths = MapInsert(EmptyMap, S_c1, S_path)
    /\ strategies_file = EmptyMap
    /\ output = <<>>
    /\ command = Command("none", <<>>, <<>>, 0)
    /\ pc = "readline"
    /\ run_request = None
    /\ IdleLocals
    /\ populate_fn \in {"populate_with_documents", "populate_with_identities"}
    /\ batch \in 0..MaxBatch
    /\ populate_pc = "start"
    /\ db_transaction = "none"
    /\ populate_storage_fee = 0
    /\ populate_processing_fee = 0
    /\ inserted = <<>>
    /\ commit_calls = 0
    /\ populate_result = None

\* start_transaction and the two accumulators
PopulateStart ==
    /\ populate_pc = "start"
    /\ db_transaction' = "open"
    /\ populate_storage_fee' = 0
    /\ populate_processing_fee' = 0
    /\ populate_pc' = "insert"
    /\ UNCHANGED <<populate_fn, batch, inserted, commit_calls, populate_result,
                   programVars>>

\* one turn of the loop over the batch, or its end: the insertion fails and
\* `?` returns the error, the transaction being dropped, or its fees are
\* added; an overflowing += panics in a build with overflow checks and wraps
\* in one without
PopulateInsert ==
    /\ populate_pc = "insert"
    /\ IF Len(inserted) = batch
       THEN /\ populate_pc' = "commit"
            /\ UNCHANGED <<db_transaction, populate_storage_fee, populate_processing_fee,
                           inserted, populate_result, commit_calls>>
       ELSE \/ /\ populate_result' = Some(PopulateErr)
               /\ db_transaction' = "dropped"
               /\ populate_pc' = "returned"
               /\ UNCHANGED <<populate_storage_fee, populate_processing_fee, inserted,
                              commit_calls>>
            \/ \E r \in FeeResults :
                 LET s == AddI64(populate_storage_fee, r[1])
                     p == AddU64(populate_processing_fee, r[2])
                 IN  /\ populate_pc' \in IF s.overflow \/ p.overflow
                                         THEN {"panicked", "insert"}
                                         ELSE {"insert"}
                     /\ IF populate_pc' = "panicked"
                        THEN /\ db_transaction' = "dropped"
                             /\ UNCHANGED <<populate_storage_fee, populate_processing_fee,
                                            inserted>>
                        ELSE /\ populate_storage_fee' = s.value
                             /\ populate_processing_fee' = p.value
                             /\ inserted' = Append(inserted, r)
                             /\ UNCHANGED db_transaction
                     /\ UNCHANGED <<populate_result, commit_calls>>
    /\ UNCHANGED <<populate_fn, batch, programVars>>

\* drive.grove.commit_transaction(db_transaction)? and the Ok of the sums
PopulateCommit ==
    /\ populate_pc = "commit"
    /\ commit_calls' = commit_calls + 1
    /\ \/ /\ db_transaction' = "committed"
          /\ populate_result' =
                 Some(PopulateOk(<<populate_storage_fee, populate_processing_fee>>))
       \/ /\ db_transaction' = "dropped"
          /\ populate_result' = Some(PopulateErr)
    /\ populate_pc' = "returned"
    /\ UNCHANGED <<populate_fn, batch, populate_storage_fee, populate_processing_fee,
                   inserted, programVars>>

NextPopulate ==
    \/ PopulateStart
    \/ PopulateInsert
    \/ PopulateCommit

SpecPopulate == InitPopulate /\ [][NextPopulate]_vars

(***************************************************************************)
(* Properties of execute_blocks and execute_block, under SpecChain.        *)
(***************************************************************************)
\* the states in which execute_block is at work on `block`
InBlock == block # NoBlock

\* the block committed last when execute_block was entered
PreviousBlock == Unwrap(block_entry)[1]

\* C1: every block handed to execute_block is one height and 100 ms past the
\* block committed before it, in one run or across runs, and the committed
\* height goes up at every commit: no height is executed or committed twice.
C1_BlocksAdvanceByOne ==
    /\ [](InBlock /\ IsSome(PreviousBlock)
            => /\ block.height = Unwrap(PreviousBlock).height + 1
               /\ block.time_ms = Unwrap(PreviousBlock).time_ms + 100)
    /\ [][IsSome(last_block) /\ last_block' # last_block
            => Unwrap(last_block').height > Unwrap(last_block).height]_vars

\* the height a run has to start at: one past the committed head, or 1
RunStart ==
    LET head == Unwrap(run_request).last_block
    IN  IF IsSome(head) THEN Unwrap(head).height + 1 ELSE 1

RunCount == Unwrap(run_request).count

\* C2: execute_blocks(count) starts at height 1 / time 100 when nothing is
\* committed and at last_block.height + 1 otherwise, goes through count
\* consecutive heights, and returns with the head at start + count - 1.
C2_RunStartsOnePastTheHead ==
    IsSome(run_request) /\ command.name = "execute_blocks" =>
        /\ pc # "readline" =>
              /\ range_end = RunStart + RunCount
              /\ height \in RunStart .. range_end
        /\ InBlock => block = Block(height, height * 100)
        /\ pc = "readline" =>
              last_block = Some(Block(RunStart + RunCount - 1,
                                      (RunStart + RunCount - 1) * 100))

\* C3: from the entry of execute_block until its commit has succeeded, and
\* for good once one of its steps has failed, last_block and current_epoch
\* are what they were when the block was started.
C3_CursorWaitsForCommit ==
    IsSome(block_entry) => <<last_block, current_epoch>> = Unwrap(block_entry)

\* a commit that failed for the block after a committed one
C3_Witness ==
    /\ pc = "panicked"
    /\ transaction = "dropped"
    /\ response # NoResponse
    /\ IsSome(last_block)
    /\ IsSome(block_entry)
    /\ IsSome(current_epoch)

\* C4: with an empty registry a run of execute_blocks dies at the choice of
\* the proposer: no transaction is started, block_begin is not reached, the
\* run never returns to the prompt, and the cursor stays None.
C4_EmptyRegistryFailsAtProposerSelection ==
    masternodes = <<>> =>
        /\ last_block = None
        /\ current_epoch = None
        /\ transaction = "none"
        /\ pc \in {"readline", "execute_blocks", "random_masternode", "panicked"}
        /\ command.name = "execute_blocks" => pc # "readline"
        /\ pc = "panicked" => block = Block(1, 100) /\ masternode = 0

\* execute_blocks(1) has died on the empty registry
C4_Witness ==
    /\ masternodes = <<>>
    /\ command.name = "execute_blocks"
    /\ command.count = 1
    /\ pc = "panicked"

\* the results of the insertions of the block so far, in order
RECURSIVE InsertionResults(_)
InsertionResults(log) ==
    IF log = <<>> THEN <<>> ELSE Head(log).results \o InsertionResults(Tail(log))

RECURSIVE SumOf(_, _)
SumOf(results, k) ==
    IF results = <<>> THEN 0 ELSE Head(results)[k] + SumOf(Tail(results), k)

\* C5: the FeesAggregate given to block_end is the sum of the storage fees
\* and the sum of the processing fees of exactly the insertions of this
\* block; nothing of an earlier block is in it.
C5_FeesAreTheExactSum ==
    pc = "block_end" =>
        /\ fees_aggregate.storage_fees = SumOf(InsertionResults(op_log), 1)
        /\ fees_aggregate.processing_fees = SumOf(InsertionResults(op_log), 2)

\* the chance of the i-th operation of the loaded strategy
ChanceOf(i) == LoadedOperations[i][2].chance_per_block

\* C6: in every block each operation of the loaded strategy is decided once;
\* one with chance None fires, one with Some(0.0) does not, one with
\* Some(1.0) does, whatever is drawn.
C6_ChanceDecidesFiring ==
    /\ Len(op_log) <= Len(LoadedOperations)
    /\ \A i \in 1..Len(op_log) :
          /\ ChanceOf(i) = None => op_log[i].fired
          /\ ChanceOf(i) = Some(0) => ~op_log[i].fired
          /\ ChanceOf(i) = Some(1000) => op_log[i].fired
    /\ pc \in {"block_end", "commit_transaction", "advance_cursor"}
          => Len(op_log) = Len(LoadedOperations)

\* a block with a Some(0.0) operation that stayed out and a Some(1.0) one that fired
C6_Witness ==
    /\ pc = "block_end"
    /\ Len(op_log) = 2
    /\ ChanceOf(1) = Some(0) /\ ~op_log[1].fired
    /\ ChanceOf(2) = Some(1000) /\ op_log[2].fired /\ op_log[2].count = 1

(***************************************************************************)
(* Properties of dup_strategy, under SpecStrategy.                         *)
(***************************************************************************)
LoadedAlias == Unwrap(current_execution_strategy)[1]

LoadedStrategy == Unwrap(current_execution_strategy)[2]

\* the steps in which a command of the given name is run from the prompt
CommandStep(name) == pc = "readline" /\ command'.name = name

\* what C7 and its original statement share: the duplicate is loaded with the
\* same operations, and the loaded strategy and the store are apart: add_op
\* leaves the store alone, save and dup leave the loaded operations alone
DuplicateIsLoadedAndApart ==
    /\ CommandStep("dup_strategy") /\ IsSome(current_execution_strategy)
          => current_execution_strategy' = Some(<<command'.alias, LoadedStrategy>>)
    /\ CommandStep("add_strategy_op")
          => available_strategies' = available_strategies
    /\ available_strategies' # available_strategies
          => /\ IsSome(current_execution_strategy')
             /\ Unwrap(current_execution_strategy')[2] = LoadedStrategy

\* C7 as stated: dup_strategy(new_alias) with (A, ops) loaded leaves what is
\* stored under A as it was, loads (new_alias, ops), and later add_op on the
\* duplicate does not change the stored entry (nor the store the duplicate).
C7_DupLeavesStoredContent ==
    [][/\ DuplicateIsLoadedAndApart
       /\ /\ CommandStep("dup_strategy")
          /\ IsSome(current_execution_strategy)
          /\ HasKey(available_strategies, LoadedAlias)
          => available_strategies'[LoadedAlias] = available_strategies[LoadedAlias]]_vars

\* C7 amended: dup_strategy(new_alias) with (A, ops) loaded sets the entry
\* stored under A to ops, so what was stored under A stays only when it
\* already was ops; it leaves every other entry as it was, loads
\* (new_alias, ops), and later add_op on the duplicate does not change the
\* store (nor do save and dup change the loaded operations).
C7_DupStoresLoadedContent ==
    [][/\ DuplicateIsLoadedAndApart
       /\ CommandStep("dup_strategy") /\ IsSome(current_execution_strategy)
          => /\ DOMAIN available_strategies' = DOMAIN available_strategies \cup {LoadedAlias}
             /\ available_strategies'[LoadedAlias] = LoadedStrategy
             /\ \A k \in DOMAIN available_strategies \ {LoadedAlias} :
                   available_strategies'[k] = available_strategies[k]]_vars

\* a duplicate has been loaded next to two stored strategies that differ
C7_Witness ==
    /\ command.name = "dup_strategy"
    /\ output = << Msg("Duplicated strategy as", 0) >>
    /\ LoadedAlias = command.alias
    /\ Len(LoadedOperations) >= 1
    /\ \E a, b \in DOMAIN available_strategies :
          /\ a # command.alias
          /\ available_strategies[a] = LoadedStrategy
          /\ available_strategies[b] # LoadedStrategy

\* C8: dup_strategy(new_alias) with nothing loaded reports an error and
\* changes neither the store nor the loaded slot; with (A, ops) loaded it
\* writes ops into the store under A, operations added since the last save
\* included, and loads (new_alias, ops).
C8_DupPersistsThenLoads ==
    [][CommandStep("dup_strategy") =>
          IF IsSome(current_execution_strategy)
          THEN /\ available_strategies' =
                      MapInsert(available_strategies, LoadedAlias, LoadedStrategy)
               /\ current_execution_strategy' = Some(<<command'.alias, LoadedStrategy>>)
               /\ ~IsError(output'[1])
          ELSE /\ UNCHANGED strategyStoreVars
               /\ IsError(output'[1])]_vars

\* a strategy with two operations never saved has been duplicated
C8_Witness ==
    /\ command.name = "dup_strategy"
    /\ output = << Msg("Duplicated strategy as", 0) >>
    /\ Len(LoadedOperations) = 2
    /\ DOMAIN available_strategies = {S_s1}
    /\ available_strategies[S_s1] = LoadedStrategy
    /\ LoadedAlias = S_s2

(***************************************************************************)
(* Properties of the prompts of the blockchain screen, under SpecChain.    *)
(***************************************************************************)
\* arguments that are no count: 0, above 10000, not an integer
NoCounts == { <<"0">>, <<"1","0","0","0","1">>, <<"x">>, <<"1",".","5">>, <<"-","1">> }

\* lines of a prompt that must not run it
RejectedLines(cmd) ==
    { cmd \o Sp \o arg : arg \in NoCounts }
        \cup { cmd \o Sp, cmd \o Sp \o <<"1">> \o Sp \o <<"2">> }

\* C9: execute_blocks runs only with an integer count in 1..10000; a count
\* of 0, one above 10000, a non-integer or a wrong number of arguments is
\* reported as an error and nothing executes: no proposer, no transaction,
\* and the cursor, the registry and the strategies stay as they were.
C9_RejectedRunExecutesNothing ==
    /\ [](/\ command.name = "execute_blocks" => command.count \in 1..10000
          /\ command.input \in RejectedLines(S_e) \cup RejectedLines(S_execute_blocks)
                => command.name = "prompt_execute_blocks")
    /\ [][CommandStep("prompt_execute_blocks") =>
             /\ IsError(output'[1])
             /\ pc' = "readline"
             /\ UNCHANGED <<explorerVars, loopVars, blockVars, strategyVars>>]_vars

\* execute_blocks 0 has been rejected on a chain with a committed block
C9_Witness ==
    /\ command.name = "prompt_execute_blocks"
    /\ command.input = S_e \o Sp \o <<"0">>
    /\ output = << Msg("ERROR_limit_range", 0) >>
    /\ IsSome(last_block)
    /\ pc = "readline"

\* the identifiers are pairwise distinct and none is in the registry
NoCollision(new) ==
    /\ \A i, j \in 1..Len(new) : i # j => new[i] # new[j]
    /\ \A i \in 1..Len(new) : ~ContainsKey(masternodes, new[i])

\* C10: add_masternodes(n) with n in 1..10000 makes the registry larger by
\* exactly n when the n identifiers generated are pairwise distinct and not
\* yet present; with 0, more than 10000 or a non-integer the registry is
\* unchanged and an error is reported.
C10_RegistryGrowsByCount ==
    /\ [](command.input \in RejectedLines(S_a) \cup RejectedLines(S_add_masternodes)
             => command.name = "prompt_add_masternodes")
    /\ [][/\ CommandStep("add_masternodes") =>
                /\ command'.count \in 1..10000
                /\ Len(command'.new) = command'.count
                /\ NoCollision(command'.new)
                      => Len(masternodes') = Len(masternodes) + command'.count
          /\ CommandStep("prompt_add_masternodes") =>
                /\ masternodes' = masternodes
                /\ IsError(output'[1])]_vars

\* two masternodes with distinct identifiers have been added at once
C10_Witness ==
    /\ command.name = "add_masternodes"
    /\ command.count = 2
    /\ command.new[1] # command.new[2]
    /\ masternodes = command.new

(***************************************************************************)
(* Properties of the workload of a block, under SpecChain.                 *)
(***************************************************************************)
\* the range of the i-th operation of the loaded strategy
RangeOf(i) == LoadedOperations[i][2].times_per_block_range

\* the operations of this block whose turn of the loop is over
OpDone(i) ==
    \/ pc \in {"block_end", "commit_transaction", "advance_cursor"}
    \/ pc \in {"strategy_op", "add_document"} /\ i < op_idx

\* C11: an operation that fires with the range [low, high) has a count n
\* with low <= n < high drawn for it, never more than n documents are
\* inserted for it, and exactly n once its turn is over; the single
\* operation (2..3, None) inserts exactly 2 documents in every block.
C11_CountWithinRange ==
    /\ \A i \in 1..Len(op_log) :
          op_log[i].fired /\ RangeOf(i).start < RangeOf(i).end =>
              /\ op_log[i].count >= RangeOf(i).start
              /\ op_log[i].count < RangeOf(i).end
              /\ Len(op_log[i].results) <= op_log[i].count
              /\ OpDone(i) => Len(op_log[i].results) = op_log[i].count
    /\ /\ pc = "block_end"
       /\ LoadedOperations = << <<PersonOp, Frequency(Range(2, 3), None)>> >>
       => Len(op_log) = 1 /\ Len(op_log[1].results) = 2

\* a block of the strategy (2..3, None) has inserted its two documents, and
\* an earlier block is committed
C11_Witness ==
    /\ pc = "block_end"
    /\ IsSome(last_block)
    /\ Len(op_log) = 1
    /\ RangeOf(1) = Range(2, 3)
    /\ op_log[1].count = 2
    /\ Len(op_log[1].results) = 2

(***************************************************************************)
(* Properties of the strategy commands, under SpecStrategy.                *)
(***************************************************************************)
\* C12: an add_op line with an unknown contract alias, an unknown document
\* type, a range that is not m..n with integer bounds, a chance that does
\* not parse or a wrong number of arguments is reported as an error, and
\* the loaded strategy, the store and all the rest of the state stay as
\* they were.
C12_RejectedAddOpChangesNothing ==
    /\ [](command.input \in BadAddOpLines => command.name = "prompt_add_op")
    /\ [][CommandStep("prompt_add_op") =>
             /\ IsError(output'[1])
             /\ UNCHANGED <<screen, explorerVars, pc, loopVars, blockVars, strategyVars,
                            run_request, block_entry, op_log>>]_vars

\* an add_op with a chance that does not parse has been rejected while a
\* strategy with an operation is loaded and one is stored
C12_Witness ==
    /\ command.name = "prompt_add_op"
    /\ output = << Msg("ERROR_chance_parse", 0) >>
    /\ Len(LoadedOperations) = 1
    /\ DOMAIN available_strategies # {}

(***************************************************************************)
(* More properties of execute_block, under SpecChain.                      *)
(***************************************************************************)
\* C13: with no strategy loaded a block inserts no document and hands
\* FeesAggregate (0,0) to block_end; its workload cannot fail, so the block
\* goes on to block_end, and a run that returns has committed its blocks
\* and advanced the cursor.
C13_NoStrategyNoInsertions ==
    /\ [](~IsSome(current_execution_strategy) =>
             /\ pc # "add_document"
             /\ op_log = <<>>
             /\ fees_aggregate = ZeroFees
             /\ pc = "readline" /\ command.name = "execute_blocks"
                   => IsSome(last_block))
    /\ [][~IsSome(current_execution_strategy) =>
             /\ pc = "execute_current_strategy" => pc' = "strategy_op"
             /\ pc = "strategy_op" => pc' = "block_end"
             /\ pc = "advance_cursor" => last_block' = Some(block)]_vars

\* a run of two blocks without a strategy has returned with both committed
C13_Witness ==
    /\ ~IsSome(current_execution_strategy)
    /\ pc = "readline"
    /\ command.name = "execute_blocks"
    /\ command.count = 2
    /\ last_block = Some(Block(2, 200))

(***************************************************************************)
(* More properties of the strategy commands, under SpecStrategy.           *)
(***************************************************************************)
\* C14: load_strategy(alias) with an alias that is not in the store, the
\* empty store included, reports that and leaves the loaded slot and the
\* store as they were; with an alias in the store it loads (alias, the
\* stored strategy); add_op on the loaded copy leaves the store alone, which
\* only save and dup change.
C14_LoadCopiesStoredStrategy ==
    [][/\ CommandStep("load_strategy") =>
             /\ available_strategies' = available_strategies
             /\ IF HasKey(available_strategies, command'.alias)
                THEN /\ current_execution_strategy' =
                            Some(<<command'.alias, available_strategies[command'.alias]>>)
                     /\ output' = << Msg("Loaded strategy", 0) >>
                ELSE /\ current_execution_strategy' = current_execution_strategy
                     /\ output'[1].msg \in {"No available strategies to load",
                                            "No available strategy for"}
       /\ CommandStep("add_strategy_op") => available_strategies' = available_strategies
       /\ available_strategies' # available_strategies
             => command'.name \in {"save_strategy", "dup_strategy"}]_vars

\* a stored strategy with an operation has been loaded
C14_Witness ==
    /\ command.name = "load_strategy"
    /\ output = << Msg("Loaded strategy", 0) >>
    /\ LoadedAlias = command.alias
    /\ Len(LoadedOperations) >= 1
    /\ available_strategies[LoadedAlias] = LoadedStrategy

\* C15: save_strategy with nothing loaded reports an error and changes
\* nothing; with (A, ops) loaded it sets the entry of A in the store to ops,
\* new or overwritten, has the store written out, leaves the other entries
\* as they were and keeps (A, ops) loaded.
C15_SaveWritesLoadedStrategy ==
    [][CommandStep("save_strategy") =>
          /\ current_execution_strategy' = current_execution_strategy
          /\ IF IsSome(current_execution_strategy)
             THEN /\ DOMAIN available_strategies' =
                         DOMAIN available_strategies \cup {LoadedAlias}
                  /\ available_strategies'[LoadedAlias] = LoadedStrategy
                  /\ \A k \in DOMAIN available_strategies \ {LoadedAlias} :
                        available_strategies'[k] = available_strategies[k]
                  /\ strategies_file' = available_strategies'
                  /\ output' = << Msg("Saved strategy", 0) >>
             ELSE /\ UNCHANGED <<available_strategies, strategies_file>>
                  /\ IsError(output'[1])]_vars

\* a strategy with two operations has been saved over one, next to another
\* stored strategy
C15_Witness ==
    /\ command.name = "save_strategy"
    /\ output = << Msg("Saved strategy", 0) >>
    /\ Len(LoadedOperations) = 2
    /\ available_strategies[LoadedAlias] = LoadedStrategy
    /\ \E k \in DOMAIN available_strategies :
          k # LoadedAlias /\ Len(available_strategies[k].operations) = 1

\* the frequency an accepted add_op line asks for
ExpectedFrequency(input) ==
    IF input = Line(<<S_add_op, S_c1, S_person, <<"3",".",".","1">>, <<"1",".","5">> >>)
    THEN Frequency(Range(3, 1), Some(1500))
    ELSE Frequency(Range(2, 3), None)

\* C16: add_strategy_op with nothing loaded reports an error and changes
\* nothing; with a strategy loaded it appends (op, frequency) as the last
\* operation, keeps the operations before it and their order, so the list
\* is longer by exactly 1, and keeps the loaded alias.
C16_AddOpAppends ==
    [][CommandStep("add_strategy_op") =>
          /\ UNCHANGED <<available_strategies, strategies_file>>
          /\ IF IsSome(current_execution_strategy)
             THEN LET old == LoadedOperations
                      new == Unwrap(current_execution_strategy')[2].operations
                  IN  /\ IsSome(current_execution_strategy')
                      /\ Unwrap(current_execution_strategy')[1] = LoadedAlias
                      /\ Len(new) = Len(old) + 1
                      /\ SubSeq(new, 1, Len(old)) = old
                      /\ new[Len(new)] =
                            <<DocumentOp(FamilyContract, S_person),
                              ExpectedFrequency(command'.input)>>
                      /\ ~IsError(output'[1])
             ELSE /\ current_execution_strategy' = current_execution_strategy
                  /\ IsError(output'[1])]_vars

\* a second, different operation has been added to the loaded strategy
C16_Witness ==
    /\ command.name = "add_strategy_op"
    /\ output = << Msg("added op to strategy", 0) >>
    /\ Len(LoadedOperations) = 2
    /\ LoadedOperations[1][2] = Frequency(Range(3, 1), Some(1500))
    /\ LoadedOperations[2][2] = Frequency(Range(2, 3), None)

\* C17: new_strategy(alias) loads (alias, no operations), whatever was
\* loaded before and whether or not the alias is in the store, which it
\* leaves alone.
C17_NewStrategyIsEmpty ==
    /\ [](/\ command.input = Line(<<S_n, S_s1>>) => command.alias = S_s1
          /\ command.input = Line(<<S_new_strategy, S_s2>>) => command.alias = S_s2)
    /\ [][CommandStep("new_strategy") =>
             /\ current_execution_strategy' = Some(<<command'.alias, Strategy(<<>>)>>)
             /\ UNCHANGED <<available_strategies, strategies_file>>
             /\ ~IsError(output'[1])]_vars

\* a new strategy has been started under an alias stored with operations
C17_Witness ==
    /\ command.name = "new_strategy"
    /\ LoadedAlias = command.alias
    /\ LoadedOperations = <<>>
    /\ HasKey(available_strategies, command.alias)
    /\ Len(available_strategies[command.alias].operations) = 2

\* a frequency with low <= high and, where there is a chance, 0 <= chance <= 1
ValidFrequency(f) ==
    /\ f.times_per_block_range.start <= f.times_per_block_range.end
    /\ IsSome(f.chance_per_block) =>
          Unwrap(f.chance_per_block) >= 0 /\ Unwrap(f.chance_per_block) <= 1000

AllValid(ops) == \A i \in 1..Len(ops) : ValidFrequency(ops[i][2])

\* C18: every Frequency add_op has put into the loaded strategy or that has
\* come into the store has low <= high and, where it has a chance, a chance
\* between 0 and 1.
C18_FrequenciesAreValid ==
    /\ AllValid(LoadedOperations)
    /\ \A k \in DOMAIN available_strategies : AllValid(available_strategies[k].operations)

(***************************************************************************)
(* Failures inside a run of execute_blocks, under SpecChain.               *)
(***************************************************************************)
\* C19: an operation whose range has low = high does not abort a block:
\* when it fires, no document is inserted for it and the block goes on.
C19_EmptyRangeDoesNotAbort ==
    \A i \in 1..Len(op_log) :
        op_log[i].fired /\ RangeOf(i).start = RangeOf(i).end =>
            /\ op_log[i].results = <<>>
            /\ ~(pc = "panicked" /\ op_idx = i)

\* C20: a failure at a step of block b (proposer, block_begin, an
\* insertion, block_end, commit) ends the run for good: nothing happens
\* after it, the state stays at block b with the cursor of its entry, and
\* the loop of execute_blocks is only ever at a block boundary, with no
\* block and no transaction left over from a failed one.
C20_FailureEndsTheRun ==
    /\ [](/\ pc = "panicked" =>
                /\ InBlock
                /\ block.height = height
                /\ transaction \in {"none", "dropped"}
                /\ <<last_block, current_epoch>> = Unwrap(block_entry)
          /\ pc = "execute_blocks" => ~InBlock /\ transaction = "none"
          /\ transaction = "dropped" => pc = "panicked")
    /\ [][pc = "panicked" => UNCHANGED vars]_vars

\* the first block of a run of two has failed at block_end
C20_Witness ==
    /\ pc = "panicked"
    /\ command.name = "execute_blocks"
    /\ command.count = 2
    /\ height + 1 < range_end
    /\ transaction = "dropped"
    /\ Len(op_log) = 1
    /\ Len(op_log[1].results) = 2

\* the block is past its workload
PastWorkload == pc \in {"block_end", "commit_transaction", "advance_cursor"}

\* C21: when an insertion of block b fails, block_end and commit_transaction
\* are not called for b: the block dies with its transaction dropped, no
\* response of block_end and the cursor of its entry; block_end is reached
\* only when every insertion that was due has succeeded.
C21_FailedInsertionCommitsNothing ==
    /\ pc = "panicked" /\ documents > 0 =>
          /\ response = NoResponse
          /\ transaction = "dropped"
          /\ <<last_block, current_epoch>> = Unwrap(block_entry)
    /\ PastWorkload =>
          /\ documents = 0
          /\ \A i \in 1..Len(op_log) : Len(op_log[i].results) = op_log[i].count
    /\ transaction = "committed" => pc = "advance_cursor"

\* the second of two insertions has failed, in a block after a committed one
C21_Witness ==
    /\ pc = "panicked"
    /\ documents = 1
    /\ Len(op_log) = 1
    /\ op_log[1].count = 2
    /\ Len(op_log[1].results) = 1
    /\ IsSome(last_block)

\* the step that may follow each step of a block
StepOrder ==
    { <<"execute_blocks", "random_masternode">>, <<"execute_blocks", "readline">>,
      <<"random_masternode", "start_transaction">>,
      <<"start_transaction", "block_begin">>,
      <<"block_begin", "execute_current_strategy">>,
      <<"execute_current_strategy", "strategy_op">>,
      <<"strategy_op", "strategy_op">>, <<"strategy_op", "add_document">>,
      <<"strategy_op", "block_end">>,
      <<"add_document", "add_document">>, <<"add_document", "strategy_op">>,
      <<"block_end", "commit_transaction">>,
      <<"commit_transaction", "advance_cursor">>,
      <<"advance_cursor", "execute_blocks">> }

\* C22: a block goes through proposer, block_begin, workload, block_end,
\* commit and cursor in this order, each once, and one block at a time: the
\* next block is begun only from the loop, after the commit and the cursor
\* of the one before it.
C22_StepsInOrder ==
    /\ [](/\ pc = "random_masternode" => masternode = 0 /\ transaction = "none"
          /\ pc = "block_begin" => masternode # 0 /\ transaction = "open"
          /\ pc \in {"block_begin", "execute_current_strategy", "strategy_op",
                     "add_document", "block_end"} => response = NoResponse
          /\ pc = "commit_transaction" => masternode # 0 /\ transaction = "open"
          /\ pc = "advance_cursor" =>
                /\ transaction = "committed"
                /\ <<last_block, current_epoch>> = Unwrap(block_entry)
          /\ pc = "execute_blocks" => ~InBlock /\ transaction = "none"
          /\ InBlock /\ block.height > range_end - RunCount
                => last_block = Some(Block(block.height - 1, (block.height - 1) * 100)))
    /\ [][pc \notin {"readline", "panicked"} =>
             \/ <<pc, pc'>> \in StepOrder
             \/ pc' = "panicked"]_vars

\* the second block of a run is committed, after the first
C22_Witness ==
    /\ pc = "advance_cursor"
    /\ transaction = "committed"
    /\ block = Block(2, 200)
    /\ last_block = Some(Block(1, 100))
    /\ Len(op_log) = 2

\* C23: a block starts one transaction, when none is there; block_begin,
\* the insertions and block_end work in it; it is committed, or dropped by
\* a failure, before the loop goes to the next block, so no transaction is
\* open at a block boundary or at the prompt.
C23_OneTransactionPerBlock ==
    /\ pc \in {"readline", "execute_blocks", "random_masternode", "start_transaction"}
          => transaction = "none"
    /\ pc \in {"block_begin", "execute_current_strategy", "strategy_op", "add_document",
               "block_end", "commit_transaction"} => transaction = "open"
    /\ pc = "advance_cursor" => transaction = "committed"
    /\ pc = "panicked" =>
          IF masternode = 0 THEN transaction = "none" ELSE transaction = "dropped"

\* the second block of a run is about to start its transaction
C23_Witness ==
    /\ pc = "start_transaction"
    /\ transaction = "none"
    /\ block = Block(2, 200)
    /\ last_block = Some(Block(1, 100))

\* C24: when a committed block is recorded, the tracked epoch becomes the
\* index block_end reported if the response flags an epoch change, and is
\* otherwise what it was when the block started; nothing else changes it.
C24_EpochFollowsBlockEnd ==
    /\ [][pc = "advance_cursor" =>
            /\ transaction = "committed"
            /\ last_block' = Some(block)
            /\ current_epoch' = IF response.is_epoch_change
                                THEN Some(response.current_epoch_index)
                                ELSE Unwrap(block_entry)[2]]_vars
    /\ [][pc # "advance_cursor" => current_epoch' = current_epoch]_vars

\* the second block is recorded without an epoch change, after the first
\* block changed the epoch to 1
C24_Witness ==
    /\ pc = "advance_cursor"
    /\ block = Block(2, 200)
    /\ ~response.is_epoch_change
    /\ response.current_epoch_index = 0
    /\ current_epoch = Some(1)

\* the largest u64 of the model
U64Max == U64Modulus - 1

\* a saturating sum of the k-th components of the results, a negative one
\* counting as nothing
RECURSIVE SaturatingSumOf(_, _)
SaturatingSumOf(results, k) ==
    IF results = <<>>
    THEN 0
    ELSE LET rest == SaturatingSumOf(Tail(results), k)
             fee == IF Head(results)[k] < 0 THEN 0 ELSE Head(results)[k]
         IN  IF rest + fee > U64Max THEN U64Max ELSE rest + fee

\* C25: the fees of a block are accumulated by saturating, non-negative
\* addition: the processing fees are the sum of the returned processing
\* fees capped at the largest u64, the storage fees never exceed the capped
\* sum of the non-negative storage fees returned, and no addition wraps.
C25_FeesSaturate ==
    LET results == InsertionResults(op_log)
    IN  /\ fees_aggregate.processing_fees = SaturatingSumOf(results, 2)
        /\ fees_aggregate.storage_fees <= SaturatingSumOf(results, 1)

\* the keys of the registry
RegistryKeys == { masternodes[i] : i \in 1..Len(masternodes) }

\* C26: the keys of the registry are pairwise distinct after any sequence of
\* add_masternodes; a masternode whose identifier is already present is
\* taken without a crash and is in the registry afterwards; the tally
\* reported is the number of keys of the registry after the insertion.
C26_RegistryKeysUnique ==
    /\ \A i, j \in 1..Len(masternodes) : i # j => masternodes[i] # masternodes[j]
    /\ command.name = "add_masternodes" =>
          /\ pc = "readline"
          /\ \A i \in 1..Len(command.new) : command.new[i] \in RegistryKeys
          /\ output[2] = Msg("Current tally", Cardinality(RegistryKeys))

\* add_masternodes(2) has generated the same identifier twice and the
\* registry holds it once
C26_Witness ==
    /\ command.name = "add_masternodes"
    /\ command.count = 2
    /\ command.new[1] = command.new[2]
    /\ masternodes = <<command.new[1]>>
    /\ output = << Msg("Added", 2), Msg("Current tally", 1) >>

\* the steps of a block that follow the choice of its proposer
ProposerChosen ==
    pc \in {"start_transaction", "block_begin", "execute_current_strategy", "strategy_op",
            "add_document", "block_end", "commit_transaction", "advance_cursor"}

\* C27: with a registry that is not empty, the proposer of the begin_block
\* request of a block is a key of the registry at that moment; the block
\* has that one proposer from its choice to its end; choosing it leaves the
\* registry as it was.
C27_ProposerIsRegistered ==
    /\ [](masternodes # <<>> /\ ProposerChosen => masternode \in RegistryKeys)
    /\ [][masternodes # <<>> /\ pc = "random_masternode" =>
             /\ masternodes' = masternodes
             /\ pc' = "start_transaction"
             /\ masternode' \in RegistryKeys]_vars
    /\ [][ProposerChosen /\ pc # "advance_cursor" =>
             /\ masternode' = masternode
             /\ masternodes' = masternodes]_vars

\* block_begin is about to be called with the second of two registered
\* masternodes as proposer
C27_Witness ==
    /\ pc = "block_begin"
    /\ Len(masternodes) = 2
    /\ masternode = masternodes[2]

\* C28: the operations of the loaded strategy are taken in the order of
\* the list, and every document of an operation is inserted before the
\* next operation is decided; gen_bool is called only for an operation
\* whose chance is Some, and gen_range only for an operation that fires:
\* an operation that stays out has no count and no document, and a panic in
\* the turn of an operation comes from a draw that the turn makes.
C28_OperationsInOrder ==
    /\ pc = "strategy_op" => Len(op_log) = op_idx - 1 /\ documents = 0
    /\ pc = "add_document" =>
          /\ Len(op_log) = op_idx
          /\ op_log[op_idx].fired
          /\ documents > 0
          /\ documents = op_log[op_idx].count - Len(op_log[op_idx].results)
    /\ \A i \in 1..Len(op_log) :
          /\ ~op_log[i].fired => op_log[i].count = 0 /\ op_log[i].results = <<>>
          /\ i < Len(op_log) => Len(op_log[i].results) = op_log[i].count
          /\ ChanceOf(i) = None => op_log[i].fired
    /\ /\ pc = "panicked"
       /\ op_idx \in 1..Len(LoadedOperations)
       /\ Len(op_log) = op_idx - 1
       => /\ IsSome(ChanceOf(op_idx))
          /\ GenBoolPanics(Unwrap(ChanceOf(op_idx)))
    /\ /\ pc = "panicked"
       /\ op_idx \in 1..Len(LoadedOperations)
       /\ Len(op_log) = op_idx
       /\ documents = 0
       => /\ op_log[op_idx].fired
          /\ GenRangePanics(RangeOf(op_idx))

\* the first operation has inserted its two documents and the second, which
\* has no chance, is about to insert its first
C28_Witness ==
    /\ pc = "add_document"
    /\ op_idx = 2
    /\ ChanceOf(1) = Some(500) /\ ChanceOf(2) = None
    /\ op_log[1].count = 2 /\ Len(op_log[1].results) = 2
    /\ op_log[2].count = 1 /\ op_log[2].results = <<>>

\* the index of the epoch tracked when execute_block was entered, 0 if none
EpochAtEntry ==
    LET epoch == Unwrap(block_entry)[2]
    IN  IF IsSome(epoch) THEN Unwrap(epoch) ELSE 0

\* C29: the epoch index given to every insertion of a block is the index of
\* the epoch tracked when the workload of the block starts, 0 if there is
\* none; the epoch change block_end reports for a block is not in the
\* tracked epoch, nor in the index of the insertions, until the block is
\* over.
C29_InsertionsTaggedWithEntryEpoch ==
    /\ pc \in {"strategy_op", "add_document", "block_end", "commit_transaction",
               "advance_cursor"}
          => /\ epoch_index = EpochAtEntry
             /\ current_epoch = Unwrap(block_entry)[2]
    /\ pc = "panicked" /\ op_log # <<>> => epoch_index = EpochAtEntry

\* the second block inserts its second document under epoch 1, the epoch
\* the block_end of the first block changed to
C29_Witness ==
    /\ pc = "add_document"
    /\ block = Block(2, 200)
    /\ current_epoch = Some(1)
    /\ epoch_index = 1
    /\ Len(op_log[1].results) = 1

\* the height of the first block a run executes
RunFirst ==
    LET head == Unwrap(run_request).last_block
    IN  IF IsSome(head) THEN Unwrap(head).height ELSE 1

\* the run has stopped inside the workload of a block at a step that is no
\* call of the engine: a draw of rand, or the addition of the fees returned
StoppedWithoutEngineFailure ==
    /\ pc = "panicked"
    /\ op_idx \in 1..Len(LoadedOperations)
    /\ \/ Len(op_log) = op_idx - 1
       \/ documents = 0
       \/ Len(op_log[op_idx].results) > op_log[op_idx].count - documents

\* C30: a run of execute_blocks(count), 1 <= count <= 10000, on a registry
\* that is not empty stops only by a failure of the engine; the loop goes
\* through count heights, and when it returns to the prompt count blocks
\* have been committed, the last of them is the head, and no block and no
\* transaction is open.
C30_RunCommitsCountBlocks ==
    masternodes # <<>> /\ command.name = "execute_blocks" =>
        /\ RunCount \in 1..10000
        /\ ~StoppedWithoutEngineFailure
        /\ pc \notin {"readline", "panicked"} =>
              /\ range_end = RunFirst + RunCount
              /\ height \in RunFirst .. range_end
        /\ pc = "readline" =>
              /\ ~InBlock
              /\ transaction = "none"
              /\ last_block = Some(Block(RunFirst + RunCount - 1,
                                         (RunFirst + RunCount - 1) * 100))

(***************************************************************************)
(* Properties of the command lines of the two screens.                    *)
(***************************************************************************)
\* C31: on the strategy screen the lines `save_strategy` and `s` both run
\* save_strategy: the loaded strategy is in the store under its alias
\* afterwards and stays loaded.
C31_BothSaveFormsSave ==
    /\ screen = "StrategyScreen"
    /\ command.input \in {S_save_strategy, S_s}
    /\ command.name # "strategy"
    => /\ command.name = "save_strategy"
       /\ IsSome(current_execution_strategy) =>
             /\ LoadedAlias \in DOMAIN available_strategies
             /\ available_strategies[LoadedAlias] = LoadedStrategy

(***************************************************************************)
(* Properties of the chain cursor, under SpecChain.                       *)
(***************************************************************************)
\* C32: in the request of every block_begin, previous_block_time_ms is None
\* exactly when no block has been committed; otherwise it is the time_ms of
\* the block committed last and is less than the block_time_ms of the
\* request.
C32_PreviousTimeIsEarlier ==
    pc = "block_begin" =>
        /\ previous_block_time_ms = None <=> last_block = None
        /\ IsSome(last_block) =>
              /\ previous_block_time_ms = Some(Unwrap(last_block).time_ms)
              /\ Unwrap(previous_block_time_ms) < block.time_ms

\* C33: whenever a block is recorded as committed, its time_ms is 100 times
\* its height and its height is at least 1.
C33_HeadTimeMatchesHeight ==
    IsSome(last_block) =>
        /\ Unwrap(last_block).time_ms = Unwrap(last_block).height * 100
        /\ Unwrap(last_block).height >= 1

\* two runs have been committed and the head is the block of height 2
C33_Witness ==
    /\ last_block = Some(Block(2, 200))
    /\ IsSome(Unwrap(run_request).last_block)
    /\ pc = "readline"

(***************************************************************************)
(* What each command leaves alone, under SpecExplorer.                    *)
(***************************************************************************)
\* C34: the strategy store changes only in a step of save_strategy or
\* dup_strategy, and then only in the entry of the alias loaded when the
\* command was given (the new alias of dup_strategy is not added);
\* new_strategy, load_strategy, add_op, add_masternodes and every step of
\* execute_blocks leave it as it was.
C34_StoreChangedBySaveAndDup ==
    /\ [][available_strategies' # available_strategies =>
             /\ pc = "readline"
             /\ command'.name \in {"save_strategy", "dup_strategy"}
             /\ IsSome(current_execution_strategy)
             /\ DOMAIN available_strategies' =
                    DOMAIN available_strategies \cup {LoadedAlias}
             /\ \A k \in DOMAIN available_strategies \ {LoadedAlias} :
                   available_strategies'[k] = available_strategies[k]]_vars
    /\ [][\/ pc # "readline"
          \/ command'.name \in {"new_strategy", "load_strategy", "add_strategy_op",
                                "prompt_add_op", "add_masternodes", "execute_blocks"}
          => available_strategies' = available_strategies]_vars

\* s1 was stored by a dup, blocks have been executed, and a save has put the
\* duplicate with its operation next to it
C34_Witness ==
    /\ command.name = "save_strategy"
    /\ IsSome(last_block)
    /\ masternodes # <<>>
    /\ DOMAIN available_strategies = {S_s1, S_s2}
    /\ LoadedAlias = S_s2
    /\ available_strategies[S_s1] = Strategy(<<>>)
    /\ Len(available_strategies[S_s2].operations) = 1

\* C35: last_block and current_epoch change only in the last step of
\* execute_block: no strategy command and no add_masternodes changes them;
\* from the start of a run of execute_blocks to its end the registry, the
\* loaded strategy and the store stay as they are; and no step removes a
\* masternode from the registry.
C35_CursorOwnedByExecuteBlock ==
    /\ [][<<last_block, current_epoch>>' # <<last_block, current_epoch>>
             => pc = "advance_cursor"]_vars
    /\ [][pc # "readline" \/ command'.name = "execute_blocks" =>
             UNCHANGED <<masternodes, current_execution_strategy,
                         available_strategies>>]_vars
    /\ [][/\ Len(masternodes') >= Len(masternodes)
          /\ \A i \in 1..Len(masternodes) : masternodes'[i] = masternodes[i]]_vars

\* a strategy has been saved and another started after a block was
\* committed and changed the epoch
C35_Witness ==
    /\ command.name = "new_strategy"
    /\ last_block = Some(Block(1, 100))
    /\ current_epoch = Some(1)
    /\ masternodes # <<>>
    /\ DOMAIN available_strategies # {}

(***************************************************************************)
(* Round trips of the strategy commands, under SpecStrategy.              *)
(***************************************************************************)
\* C36: with (A, ops) loaded, load_strategy(A) right after save_strategy
\* leaves (A, ops) loaded, and a second save_strategy right after the first
\* leaves the store and the loaded slot as the first left them.
C36_SaveLoadRoundTrip ==
    [][command.name = "save_strategy" /\ IsSome(current_execution_strategy) =>
          /\ CommandStep("load_strategy") /\ command'.alias = LoadedAlias =>
                /\ current_execution_strategy' = current_execution_strategy
                /\ output' = << Msg("Loaded strategy", 0) >>
          /\ CommandStep("save_strategy") =>
                UNCHANGED <<available_strategies, current_execution_strategy>>]_vars

\* s1 with its two operations has been loaded again after it was saved
C36_Witness ==
    /\ command.name = "load_strategy"
    /\ command.alias = S_s1
    /\ output = << Msg("Loaded strategy", 0) >>
    /\ LoadedAlias = S_s1
    /\ Len(LoadedOperations) = 2
    /\ available_strategies[S_s1] = LoadedStrategy

(***************************************************************************)
(* Navigation between the screens, under SpecExplorer.                    *)
(***************************************************************************)
\* the screen an input line leads to from a screen
NextScreen(scr, input) ==
    IF scr = "BlockchainScreen" /\ input \in {S_strategy, S_s} THEN "StrategyScreen"
    ELSE IF scr = "BlockchainScreen" /\ input = S_exit THEN "MainScreen"
    ELSE IF scr = "StrategyScreen" /\ input = S_exit THEN "BlockchainScreen"
    ELSE scr

\* C37: on the blockchain screen `strategy` and `s` lead to the strategy
\* screen and `exit` to the main screen, on the strategy screen `exit`
\* leads to the blockchain screen; every other line and every read error
\* keeps the screen, as does every step of a run; a line that is not
\* recognised and a read error leave the Explorer as it was.
C37_NavigationIsFixed ==
    /\ [][IF pc = "readline"
          THEN screen' = NextScreen(screen, command'.input)
          ELSE screen' = screen]_vars
    /\ [][pc = "readline" /\ command'.name \in {"other", "read_error"} =>
             UNCHANGED <<explorerVars, loopVars, blockVars, strategyVars, pc>>]_vars

\* back on the blockchain screen by `exit`, with the strategy that was put
\* together on the strategy screen
C37_Witness ==
    /\ screen = "BlockchainScreen"
    /\ command.name = "exit"
    /\ command.input = S_exit
    /\ IsSome(current_execution_strategy)
    /\ Len(LoadedOperations) = 1

(***************************************************************************)
(* Properties of populate_with_documents and populate_with_identities,    *)
(* under SpecPopulate.                                                     *)
(***************************************************************************)
\* C38: a call commits its transaction at most once, and only after every
\* insertion of the batch has succeeded; the pair it returns is the sum of
\* the storage fees and the sum of the processing fees the insertions
\* returned, with the transaction committed; when an insertion fails the
\* call returns an error, nothing is committed and no later insertion is
\* made.
C38_PopulateAllOrNothing ==
    /\ commit_calls <= 1
    /\ commit_calls = 1 => Len(inserted) = batch
    /\ db_transaction = "committed" =>
          /\ commit_calls = 1
          /\ populate_pc = "returned"
          /\ Unwrap(populate_result).ok
    /\ populate_pc = "returned" =>
          IF Unwrap(populate_result).ok
          THEN /\ db_transaction = "committed"
               /\ Unwrap(populate_result).value =
                      <<SumOf(inserted, 1), SumOf(inserted, 2)>>
          ELSE /\ db_transaction = "dropped"
               /\ Len(inserted) < batch => commit_calls = 0

====
